---- MODULE Spec2Model ----
(***************************************************************************)
(* Ariadne: multi-objective tree optimisation and front-distance engine.   *)
(*                                                                         *)
(* Model of src/src/ariadne_roots/pareto_functions.py (critical nodes,     *)
(* graph_costs, satellite_tree, the greedy Steiner builders, pareto_front) *)
(* and of distance_from_front / distance_from_front_3d in                  *)
(* src/src/ariadne_roots/quantify.py.                                      *)
(*                                                                         *)
(* Numbers.  Edge weights given by the caller are integers.  Positions and *)
(* Euclidean lengths are fixed-point integers, Unit steps per grid step;   *)
(* a square root is rounded to the nearest step, as the float square root  *)
(* is rounded to the nearest double.  Trade-off weights are hundredths     *)
(* (alpha = a/100).  Ratios in the front-distance estimators are exact     *)
(* rationals <<numerator, denominator>>.                                   *)
(***************************************************************************)
EXTENDS Integers, Sequences, FiniteSets, TLC

VARIABLES
    gcG,          \* graph_costs: the graph G passed in
    gcCrit,       \* graph_costs: the critical_nodes argument
    gcResult,     \* graph_costs: what the call produced ("pending" before)
    bP,           \* greedy builder: the call [G, dim, alpha, beta]
    bSt,          \* greedy builder: the local variables of the running call
    pfG,          \* pareto_front: the graph G passed in
    pf,           \* pareto_front: the local variables of the running call
    dfDim,        \* distance_from_front (2) or distance_from_front_3d (3)
    dfFront,      \* distance_from_front*: the front passed in
    dfActual,     \* distance_from_front*: the actual_tree passed in
    dfResult,     \* distance_from_front*: what the call produced
    rtG,          \* random_tree: the graph G passed in
    rt,           \* random_tree: the local variables of the running call
    hFn,          \* a helper called on its own: the name of the function
    hG,           \* the helper call: the graph G passed in
    hResult       \* the helper call: what the call produced

costVars == <<gcG, gcCrit, gcResult>>
builderVars == <<bP, bSt>>
frontVars == <<pfG, pf>>
distVars == <<dfDim, dfFront, dfActual, dfResult>>
randomVars == <<rtG, rt>>
helperVars == <<hFn, hG, hResult>>
vars == <<costVars, builderVars, frontVars, distVars, randomVars, helperVars>>

(***************************************************************************)
(* Bounds of the model.                                                    *)
(***************************************************************************)
MaxN == 3          \* graph_costs inputs have node ids below MaxN
MaxEdges == 3      \* graph_costs inputs have at most MaxEdges edges
MaxWeight == 2     \* graph_costs inputs have edge weights 1..MaxWeight
Unit == 1100       \* fixed-point steps per grid step
MaxTreeN == 3      \* input trees of the builders have at most MaxTreeN nodes
GridMax == 1       \* their nodes lie on the grid (0..GridMax) x (0..GridMax)
WeightSamples == 2 \* trade-off weights are sampled in steps of 1 / WeightSamples
MaxFront == 3      \* fronts given to distance_from_front have at most MaxFront entries
MaxCost == 2       \* and costs in 0..MaxCost
EpsGuardInv == 10  \* eps_guard is 1 / EpsGuardInv
MaxFields == 2     \* results dicts given to apply_scaling_transformation have at most MaxFields entries

(***************************************************************************)
(* Generic helpers.                                                        *)
(***************************************************************************)
Min2(a, b) == IF a <= b THEN a ELSE b
Max2(a, b) == IF a >= b THEN a ELSE b

SetMin(S) == CHOOSE x \in S : \A y \in S : x <= y
SetMax(S) == CHOOSE x \in S : \A y \in S : x >= y

Range(s) == {s[i] : i \in DOMAIN s}

RECURSIVE SumSeq(_)
SumSeq(s) == IF s = <<>> THEN 0 ELSE Head(s) + SumSeq(Tail(s))

RECURSIVE AscSeq(_)
AscSeq(S) == IF S = {} THEN <<>>
             ELSE LET m == SetMin(S) IN <<m>> \o AscSeq(S \ {m})

Reverse(s) == [i \in 1..Len(s) |-> s[Len(s) + 1 - i]]

IsIn(x, s) == \E i \in DOMAIN s : s[i] = x

(***************************************************************************)
(* Graphs (networkx.Graph).  nodes: the nodes in iteration order; adj: for *)
(* each node its neighbours in iteration order; weight: the "weight"       *)
(* attribute of each edge, keyed by <<smaller end, larger end>>; pos: the  *)
(* "pos" attribute of each node.                                           *)
(***************************************************************************)
EdgeKey(u, v) == <<Min2(u, v), Max2(u, v)>>

NodeSet(G) == Range(G.nodes)

EdgeSet(G) == DOMAIN G.weight

number_of_nodes(G) == Len(G.nodes)

has_node(G, n) == n \in NodeSet(G)

neighbors(G, n) == G.adj[n]

degree(G, n) ==
    \* a self-loop counts twice in networkx
    Len(G.adj[n]) + (IF IsIn(n, G.adj[n]) THEN 1 ELSE 0)

EdgeWeight(G, u, v) == G.weight[EdgeKey(u, v)]

\* The graph with node set N, weighted edges w (a function on edge keys), nodes
\* and neighbours iterated in ascending order, or descending when rev.
MakeGraph(N, w, pos, rev) ==
    LET ord(S) == IF rev THEN Reverse(AscSeq(S)) ELSE AscSeq(S)
    IN [nodes  |-> ord(N),
        adj    |-> [n \in N |-> ord({m \in N : EdgeKey(n, m) \in DOMAIN w})],
        weight |-> w,
        pos    |-> pos]

(***************************************************************************)
(* graph_costs(G, critical_nodes): breadth-first traversal from node 0.    *)
(* The result is a record: kind "costs" with the two sums, kind "inf" for  *)
(* the (inf, inf) sentinel, kind "AssertionError" for the failed           *)
(* connectivity assertion, kind "NetworkXError" when G.neighbors(0) is     *)
(* asked of a graph without node 0.                                        *)
(***************************************************************************)
NoFilter == [given |-> FALSE, nodes |-> {}]
Filter(S) == [given |-> TRUE, nodes |-> S]

\* A slip in the filter test: every discovered node contributes.
ContributesAll(crit, n) == TRUE

\* critical_nodes == None or child_node in critical_nodes
Contributes(crit, n) == (~crit.given) \/ n \in crit.nodes

\* One pass of "for child_node in G.neighbors(current_node)", children taken
\* in order from index i; b holds parent_node, distance_to_base, nodes_to_visit,
\* edge_lengths and travel_distances_to_base.
RECURSIVE VisitChildren(_, _, _, _, _)
VisitChildren(G, crit, current, i, b) ==
    IF i > Len(neighbors(G, current)) THEN b
    ELSE LET child == neighbors(G, current)[i] IN
         IF b.parent_node[current] = child
         THEN VisitChildren(G, crit, current, i + 1, b)
         ELSE LET edge_length == EdgeWeight(G, current, child)
                  child_distance_to_base ==
                      edge_length + b.distance_to_base[current]
              IN VisitChildren(G, crit, current, i + 1,
                   [parent_node      |->
                        [n \in NodeSet(G) |->
                            IF n = child THEN current ELSE b.parent_node[n]],
                    distance_to_base |->
                        [n \in NodeSet(G) |->
                            IF n = child THEN child_distance_to_base
                            ELSE b.distance_to_base[n]],
                    nodes_to_visit   |-> Append(b.nodes_to_visit, child),
                    edge_lengths     |-> Append(b.edge_lengths, edge_length),
                    travel_distances_to_base |->
                        IF Contributes(crit, child)
                        THEN Append(b.travel_distances_to_base,
                                    child_distance_to_base)
                        ELSE b.travel_distances_to_base])

CostsOf(b) ==
    [kind   |-> "costs",
     wiring |-> SumSeq(b.edge_lengths),
     delay  |-> SumSeq(b.travel_distances_to_base)]

InfCosts == [kind |-> "inf", wiring |-> 0, delay |-> 0]

Raised(what) == [kind |-> what, wiring |-> 0, delay |-> 0]

Pending == Raised("pending")

\* A slip in the connectivity assertion: "<=" for "==".
AllVisitedAtMost(visited_nodes, G) ==
    Cardinality(visited_nodes) <= number_of_nodes(G)

\* assert len(visited_nodes) == G.number_of_nodes()
AllVisited(visited_nodes, G) ==
    Cardinality(visited_nodes) = number_of_nodes(G)

\* A slip in the cycle test: a node popped a second time is skipped, not
\* reported.
RECURSIVE BfsLoopSkipRevisit(_, _, _, _)
BfsLoopSkipRevisit(G, crit, visited_nodes, b) ==
    IF b.nodes_to_visit = <<>>
    THEN IF AllVisited(visited_nodes, G)
         THEN CostsOf(b)
         ELSE Raised("AssertionError")
    ELSE LET current_node == Head(b.nodes_to_visit)
             popped == [b EXCEPT !.nodes_to_visit = Tail(b.nodes_to_visit)]
         IN IF current_node \in visited_nodes
            THEN BfsLoopSkipRevisit(G, crit, visited_nodes, popped)
            ELSE IF ~has_node(G, current_node)
            THEN Raised("NetworkXError")
            ELSE BfsLoopSkipRevisit(G, crit, visited_nodes \cup {current_node},
                         VisitChildren(G, crit, current_node, 1, popped))

RECURSIVE BfsLoop(_, _, _, _)
BfsLoop(G, crit, visited_nodes, b) ==
    IF b.nodes_to_visit = <<>>
    THEN IF AllVisited(visited_nodes, G)
         THEN CostsOf(b)
         ELSE Raised("AssertionError")
    ELSE LET current_node == Head(b.nodes_to_visit)
             popped == [b EXCEPT !.nodes_to_visit = Tail(b.nodes_to_visit)]
         IN IF current_node \in visited_nodes
            THEN InfCosts
            ELSE IF ~has_node(G, current_node)
            THEN Raised("NetworkXError")
            ELSE BfsLoop(G, crit, visited_nodes \cup {current_node},
                         VisitChildren(G, crit, current_node, 1, popped))

\* parent_node[0] = None is modelled as -1, which is no node id.
graph_costs(G, crit) ==
    BfsLoop(G, crit, {},
            [parent_node      |-> [n \in NodeSet(G) \cup {0} |-> -1],
             distance_to_base |-> [n \in NodeSet(G) \cup {0} |-> 0],
             nodes_to_visit   |-> <<0>>,
             edge_lengths     |-> <<>>,
             travel_distances_to_base |-> <<>>])

(***************************************************************************)
(* Geometry.  A position is a pair of fixed-point coordinates.             *)
(***************************************************************************)
\* floor of the square root of n >= 0, by bisection on lo <= r < hi
RECURSIVE SqrtBetween(_, _, _)
SqrtBetween(n, lo, hi) ==
    IF hi - lo <= 1 THEN lo
    ELSE LET mid == (lo + hi) \div 2
         IN IF mid * mid <= n THEN SqrtBetween(n, mid, hi)
            ELSE SqrtBetween(n, lo, mid)

\* sq_dist ** 0.5, rounded to the nearest step
RoundSqrt(n) ==
    LET r == SqrtBetween(n, 0, Min2(n, 46340) + 1)
    IN IF n - r * r > r THEN r + 1 ELSE r

\* n / d for d > 0, rounded to the nearest step
RoundDiv(n, d) == (2 * n + d) \div (2 * d)

point_dist(p1, p2) ==
    RoundSqrt((p1[1] - p2[1]) * (p1[1] - p2[1])
              + (p1[2] - p2[2]) * (p1[2] - p2[2]))

node_dist(G, u, v) == point_dist(G.pos[u], G.pos[v])

slope_vector(p1, p2) == <<p2[1] - p1[1], p2[2] - p1[2]>>

\* p1 + t * slope for t = i / (npoints + 1)
delta_point(p1, slope, i, npoints) ==
    <<p1[1] + RoundDiv(i * slope[1], npoints + 1),
      p1[2] + RoundDiv(i * slope[2], npoints + 1)>>

\* The loop "while t < 1" runs npoints times for t = delta, 2 delta, ...: with
\* npoints = 10 the eleventh float sum is 1.0000000000000002.
steiner_points(p1, p2, npoints) ==
    [i \in 1..npoints |-> delta_point(p1, slope_vector(p1, p2), i, npoints)]

(***************************************************************************)
(* Sorting as the code sorts.                                              *)
(***************************************************************************)
\* s with x put after the last element whose key is <= key[x] (s sorted by key)
RECURSIVE InsertByKey(_, _, _)
InsertByKey(s, x, key) ==
    IF s = <<>> THEN <<x>>
    ELSE IF key[Head(s)] <= key[x]
         THEN <<Head(s)>> \o InsertByKey(Tail(s), x, key)
         ELSE <<x>> \o s

\* sorted(s, key=...): stable
RECURSIVE SortedByKey(_, _)
SortedByKey(s, key) ==
    IF s = <<>> THEN <<>>
    ELSE InsertByKey(SortedByKey(SubSeq(s, 1, Len(s) - 1), key), s[Len(s)], key)

RemoveFirst(s, x) ==
    IF IsIn(x, s)
    THEN LET i == SetMin({j \in DOMAIN s : s[j] = x})
         IN SubSeq(s, 1, i - 1) \o SubSeq(s, i + 1, Len(s))
    ELSE s

\* A slip in the comparison: candidate edges are ordered by cost alone.
EdgeLeqCostOnly(x, y) == x[1] <= y[1]

\* tuple comparison of candidate edges (cost, u, v)
EdgeLeq(x, y) ==
    \/ x[1] < y[1]
    \/ x[1] = y[1] /\ x[2] < y[2]
    \/ x[1] = y[1] /\ x[2] = y[2] /\ x[3] <= y[3]

\* A slip in the insertion: the new entry goes to the front, whatever its cost.
insert_first(s, x) == <<x>> \o s

\* bisect.insort: x goes right of every entry that is <= x
RECURSIVE insort(_, _)
insort(s, x) ==
    IF s = <<>> THEN <<x>>
    ELSE IF EdgeLeq(Head(s), x) THEN <<Head(s)>> \o insort(Tail(s), x)
         ELSE <<x>> \o s

(***************************************************************************)
(* Building a networkx graph.                                              *)
(***************************************************************************)
EmptyGraph == [nodes |-> <<>>, adj |-> <<>>, weight |-> <<>>, pos |-> <<>>]

add_node(H, n) ==
    IF has_node(H, n) THEN H
    ELSE [H EXCEPT !.nodes = Append(@, n), !.adj = @ @@ (n :> <<>>)]

set_pos(H, n, p) ==
    [H EXCEPT !.pos = [m \in DOMAIN H.pos \cup {n} |->
                          IF m = n THEN p ELSE H.pos[m]]]

\* H.add_edge(n1, n2) followed by H[n1][n2]["weight"] = w
add_edge(H, n1, n2, w) ==
    LET H1 == add_node(add_node(H, n1), n2)
        known == EdgeKey(n1, n2) \in DOMAIN H1.weight
        adj1 == IF known THEN H1.adj
                ELSE [m \in DOMAIN H1.adj |->
                        IF m = n1 THEN Append(H1.adj[m], n2)
                        ELSE IF m = n2 THEN Append(H1.adj[m], n1)
                        ELSE H1.adj[m]]
    IN [H1 EXCEPT !.adj = adj1,
                  !.weight = [e \in DOMAIN H1.weight \cup {EdgeKey(n1, n2)} |->
                                 IF e = EdgeKey(n1, n2) THEN w ELSE H1.weight[e]]]

(***************************************************************************)
(* get_critical_nodes, k_nearest_neighbors, satellite_tree.                *)
(***************************************************************************)
\* A slip in the test of get_critical_nodes: the base is not added.
get_tips(G) == SelectSeq(G.nodes, LAMBDA i : degree(G, i) = 1)

get_critical_nodes(G) ==
    SelectSeq(G.nodes, LAMBDA i : i = 0 \/ degree(G, i) = 1)

\* k = None: every candidate but u, nearest first, ties in candidate order
k_nearest_neighbors(G, u, candidate_nodes) ==
    LET others == RemoveFirst(candidate_nodes, u)
    IN SortedByKey(others, [v \in Range(others) |-> node_dist(G, u, v)])

\* A slip in satellite_tree: each critical node is joined to the node added
\* before it, not to the base.
RECURSIVE SatelliteChain(_, _, _)
SatelliteChain(G, H, todo) ==
    IF todo = <<>> THEN H
    ELSE LET u == Head(todo)
             last == H.nodes[Len(H.nodes)]
         IN IF u = 0 THEN SatelliteChain(G, H, Tail(todo))
            ELSE SatelliteChain(G,
                     set_pos(add_edge(H, last, u, node_dist(G, last, u)), u, G.pos[u]),
                     Tail(todo))

RECURSIVE SatelliteEdges(_, _, _)
SatelliteEdges(G, H, todo) ==
    IF todo = <<>> THEN H
    ELSE LET u == Head(todo)
         IN IF u = 0 THEN SatelliteEdges(G, H, Tail(todo))
            ELSE SatelliteEdges(G,
                     set_pos(add_edge(H, 0, u, node_dist(G, 0, u)), u, G.pos[u]),
                     Tail(todo))

satellite_tree(G) ==
    SatelliteEdges(G, set_pos(add_node(EmptyGraph, 0), 0, G.pos[0]),
                   get_critical_nodes(G))

(***************************************************************************)
(* The greedy builders pareto_steiner_fast (dim = 2) and                   *)
(* pareto_steiner_fast_3d_path_tortuosity (dim = 3).  The two functions    *)
(* differ in the candidate cost and in the straight_distance_to_base       *)
(* attribute; what they share is modelled once.                            *)
(*                                                                         *)
(* P is the call: [G, dim, alpha, beta], weights in hundredths.  The       *)
(* working state is a record of the function's local variables; H carries  *)
(* the node attributes distance_to_base and straight_distance_to_base as   *)
(* functions on the nodes that have them; status is "running",             *)
(* "returned" or the exception raised.                                     *)
(***************************************************************************)
STEINER_MIDPOINTS == 10

\* A slip in the weights: alpha weighs the distance.
pareto_cost_swapped(total_root_length, total_travel_distance, alpha) ==
    (100 - alpha) * total_root_length + alpha * total_travel_distance

\* alpha * length + (1 - alpha) * distance, in hundredths
pareto_cost(total_root_length, total_travel_distance, alpha) ==
    alpha * total_root_length + (100 - alpha) * total_travel_distance

\* alpha * length + beta * distance - gamma * coverage, in hundredths
pareto_cost_3d_path_tortuosity(total_root_length, total_travel_distance, total_path_coverage, alpha, beta) ==
    LET gamma == 100 - alpha - beta
    IN alpha * total_root_length + beta * total_travel_distance
       - gamma * total_path_coverage

\* The assertions at the head of pareto_cost_3d_path_tortuosity.
CostWeightsAccepted(alpha, beta) ==
    /\ 0 <= alpha /\ alpha <= 100
    /\ 0 <= beta /\ beta <= 100

\* The assertions at the head of the builder.
WeightsAccepted(P) ==
    /\ 0 <= P.alpha /\ P.alpha <= 100
    /\ P.dim = 3 => (0 <= P.beta /\ P.beta <= 100)

Fail(st, what) == [st EXCEPT !.status = what]

\* The state when the while loop is first reached.
BuilderStart(P) ==
    LET critical_nodes == get_critical_nodes(P.G)
        H0 == set_pos(add_node(EmptyGraph, 0), 0, P.G.pos[0])
    IN [H |-> H0,
        distance_to_base |-> (0 :> 0),
        straight_distance_to_base |-> IF P.dim = 3 THEN (0 :> 0) ELSE <<>>,
        added_nodes |-> 1,
        in_nodes |-> {0},
        out_nodes |-> Range(critical_nodes) \ {0},
        closest_neighbors |->
            [u \in Range(critical_nodes) |->
                k_nearest_neighbors(P.G, u, critical_nodes)],
        unpaired_nodes |-> {0},
        node_index |-> SetMax(Range(critical_nodes)) + 1,
        best_edges |-> <<>>,
        status |-> IF WeightsAccepted(P) THEN "running" ELSE "AssertionError"]

\* How many leading entries of u's list are already in the tree.
RECURSIVE InvalidPrefix(_, _, _)
InvalidPrefix(H, list, i) ==
    IF i <= Len(list) /\ has_node(H, list[i])
    THEN InvalidPrefix(H, list, i + 1)
    ELSE i - 1

\* Hypothetical cost of connecting u to v, 2D.
CandidateCost2D(P, st, u, v) ==
    LET edge_length == point_dist(st.H.pos[u], P.G.pos[v])
        total_travel_distance == edge_length + st.distance_to_base[u]
    IN [raised |-> FALSE,
        cost |-> pareto_cost(edge_length, total_travel_distance, P.alpha)]

\* Hypothetical cost of connecting u to v, 3D: the coverage term divides by the
\* straight distance from the base to v.
CandidateCost3D(P, st, u, v) ==
    LET edge_length == point_dist(st.H.pos[u], P.G.pos[v])
        total_travel_distance == edge_length + st.distance_to_base[u]
        straight == point_dist(P.G.pos[0], P.G.pos[v])
    IN IF straight = 0 THEN [raised |-> TRUE, cost |-> 0]
       ELSE [raised |-> FALSE,
             cost |-> pareto_cost_3d_path_tortuosity(
                         edge_length, total_travel_distance,
                         RoundDiv(total_travel_distance * Unit, straight),
                         P.alpha, P.beta)]

CandidateCost(P, st, u, v) ==
    IF P.dim = 2 THEN CandidateCost2D(P, st, u, v)
    ELSE CandidateCost3D(P, st, u, v)

\* The body of "for u in unpaired_nodes" for one u.
PairNode(P, st, u) ==
    IF st.status # "running" THEN st
    ELSE IF ~(has_node(st.H, u) /\ u \in DOMAIN st.distance_to_base)
    THEN Fail(st, "AssertionError")
    ELSE LET list == st.closest_neighbors[u]
             k == InvalidPrefix(st.H, list, 1)
             pruned == SubSeq(list, k + 1, Len(list))
             st1 == [st EXCEPT !.closest_neighbors[u] = pruned]
         IN IF k = Len(list) THEN Fail(st1, "AssertionError")
            ELSE LET closest_neighbor == list[k + 1]
                     c == CandidateCost(P, st1, u, closest_neighbor)
                 IN IF c.raised THEN Fail(st1, "ZeroDivisionError")
                    ELSE [st1 EXCEPT !.best_edges =
                             insort(@, <<c.cost, u, closest_neighbor>>)]

RECURSIVE PairNodes(_, _, _)
PairNodes(P, st, order) ==
    IF order = <<>> THEN st
    ELSE PairNodes(P, PairNode(P, st, Head(order)), Tail(order))

\* A slip in the filter: the candidates that point at v are kept too.
KeptEdgesAll(best_edges, v) == best_edges

\* The candidates that survive the commitment of v, and the sources of the others.
KeptEdges(best_edges, v) == SelectSeq(best_edges, LAMBDA e : e[3] # v)

Unpaired(best_edges, u, v) ==
    {u, v} \cup {best_edges[i][2] : i \in {j \in DOMAIN best_edges : best_edges[j][3] = v}}

\* One new midpoint node: position, candidate list, unpaired.
AddMidpoint(P, st, midpoint) ==
    LET midpoint_node == st.node_index
        outs == AscSeq(st.out_nodes)
        neighbors_sorted ==
            SortedByKey(outs, [o \in st.out_nodes |-> point_dist(midpoint, P.G.pos[o])])
    IN [st EXCEPT !.node_index = @ + 1,
                  !.H = set_pos(add_node(@, midpoint_node), midpoint_node, midpoint),
                  !.closest_neighbors =
                      [n \in DOMAIN st.closest_neighbors \cup {midpoint_node} |->
                          IF n = midpoint_node THEN neighbors_sorted
                          ELSE st.closest_neighbors[n]],
                  !.unpaired_nodes = @ \cup {midpoint_node}]

RECURSIVE AddMidpoints(_, _, _)
AddMidpoints(P, st, midpoints) ==
    IF midpoints = <<>> THEN st
    ELSE AddMidpoints(P, AddMidpoint(P, st, Head(midpoints)), Tail(midpoints))

SetAttr(f, n, x) == [m \in DOMAIN f \cup {n} |-> IF m = n THEN x ELSE f[m]]

\* A slip in the cached distance: the distance of u to the base is not added.
LinkNodesFromU(P, st, u, n1, n2) ==
    IF st.status # "running" THEN st
    ELSE LET H1 == add_edge(st.H, n1, n2, node_dist(st.H, n1, n2))
             d == node_dist(H1, n2, u)
             st1 == [st EXCEPT !.H = H1,
                               !.distance_to_base = SetAttr(@, n2, d)]
         IN IF n1 \notin DOMAIN st.distance_to_base
            THEN Fail([st EXCEPT !.H = H1], "AssertionError")
            ELSE IF P.dim = 2 THEN st1
            ELSE IF node_dist(H1, n2, 0) = 0 THEN Fail(st1, "ZeroDivisionError")
            ELSE [st1 EXCEPT !.straight_distance_to_base =
                     SetAttr(@, n2, RoundDiv(d * Unit, node_dist(H1, n2, 0)))]

\* One step of the loop over line_nodes: the edge n1 - n2 and n2's attributes.
LinkNodes(P, st, u, n1, n2) ==
    IF st.status # "running" THEN st
    ELSE LET H1 == add_edge(st.H, n1, n2, node_dist(st.H, n1, n2))
             d == node_dist(H1, n2, u) + st.distance_to_base[u]
             st1 == [st EXCEPT !.H = H1,
                               !.distance_to_base = SetAttr(@, n2, d)]
         IN IF n1 \notin DOMAIN st.distance_to_base
            THEN Fail([st EXCEPT !.H = H1], "AssertionError")
            ELSE IF P.dim = 2 THEN st1
            ELSE IF node_dist(H1, n2, 0) = 0 THEN Fail(st1, "ZeroDivisionError")
            ELSE [st1 EXCEPT !.straight_distance_to_base =
                     SetAttr(@, n2, RoundDiv(d * Unit, node_dist(H1, n2, 0)))]

\* A slip in the range of the loop over line_nodes: the last edge, the one
\* that reaches v, is left out.
RECURSIVE LinkLineShort(_, _, _, _, _)
LinkLineShort(P, st, u, line_nodes, i) ==
    IF i < 3 THEN st
    ELSE LinkLineShort(P, LinkNodes(P, st, u, line_nodes[i], line_nodes[i - 1]),
                       u, line_nodes, i - 1)

\* line_nodes is walked from its last element (u) to its first (v).
RECURSIVE LinkLine(_, _, _, _, _)
LinkLine(P, st, u, line_nodes, i) ==
    IF i < 2 THEN st
    ELSE LinkLine(P, LinkNodes(P, st, u, line_nodes[i], line_nodes[i - 1]),
                  u, line_nodes, i - 1)

\* The commitment of the popped candidate (cost, u, v).
CommitEdge(P, st, u, v) ==
    IF ~has_node(st.H, u) \/ has_node(st.H, v) THEN Fail(st, "AssertionError")
    ELSE LET H1 == set_pos(add_node(st.H, v), v, P.G.pos[v])
             st1 == [st EXCEPT !.H = H1,
                               !.in_nodes = @ \cup {v},
                               !.out_nodes = @ \ {v}]
             midpoints == steiner_points(H1.pos[u], H1.pos[v], STEINER_MIDPOINTS)
             first == st1.node_index
             st2 == AddMidpoints(P, st1, midpoints)
             midpoint_nodes == [i \in 1..Len(midpoints) |-> first + i - 1]
             line_nodes == <<v>> \o Reverse(midpoint_nodes) \o <<u>>
             st3 == LinkLine(P, st2, u, line_nodes, Len(line_nodes))
         IN IF st3.status # "running" THEN st3
            ELSE [st3 EXCEPT !.added_nodes = @ + 1]

\* One pass of the while loop; order is the order in which the set
\* unpaired_nodes is iterated.
Iterate(P, st, order) ==
    IF Cardinality(st.out_nodes) = 0 THEN Fail(st, "AssertionError")
    ELSE LET st1 == PairNodes(P, st, order)
         IN IF st1.status # "running" THEN st1
            ELSE IF st1.best_edges = <<>> THEN Fail(st1, "IndexError")
            ELSE LET popped == Head(st1.best_edges)
                     rest == Tail(st1.best_edges)
                     u == popped[2]
                     v == popped[3]
                 IN CommitEdge(P,
                        [st1 EXCEPT !.best_edges = KeptEdges(rest, v),
                                    !.unpaired_nodes = Unpaired(rest, u, v)],
                        u, v)

\* A slip in the loop test: one pass too many.
LoopGuardInclusive(P, st) == st.added_nodes <= Len(get_critical_nodes(P.G))

LoopGuard(P, st) == st.added_nodes < Len(get_critical_nodes(P.G))

\* The whole call, unpaired nodes iterated in ascending order.
RECURSIVE RunBuilder(_, _)
RunBuilder(P, st) ==
    IF st.status # "running" THEN st
    ELSE IF LoopGuard(P, st)
         THEN RunBuilder(P, Iterate(P, st, AscSeq(st.unpaired_nodes)))
         ELSE [st EXCEPT !.status = "returned"]

pareto_steiner_fast(G, alpha) ==
    RunBuilder([G |-> G, dim |-> 2, alpha |-> alpha, beta |-> 0],
               BuilderStart([G |-> G, dim |-> 2, alpha |-> alpha, beta |-> 0]))

pareto_steiner_fast_3d_path_tortuosity(G, alpha, beta) ==
    RunBuilder([G |-> G, dim |-> 3, alpha |-> alpha, beta |-> beta],
               BuilderStart([G |-> G, dim |-> 3, alpha |-> alpha, beta |-> beta]))

(***************************************************************************)
(* pareto_front(G).  The front is a dict: a sequence of entries            *)
(* [alpha, cost] in insertion order, one per key; alpha is in hundredths   *)
(* and cost is what graph_costs returned.                                  *)
(***************************************************************************)
\* np.arange(start, stop, step): ceil((stop - start) / step) values
arange(start, stop, step) ==
    [i \in 1 .. ((stop - start + step - 1) \div step) |-> start + (i - 1) * step]

\* np.arange(0, 1.01, 0.01), in hundredths
DEFAULT_ALPHAS == arange(0, 101, 1)

HasKey(d, k) == \E i \in DOMAIN d : d[i].alpha = k

\* d[k] = x
DictSet(d, k, x) ==
    IF HasKey(d, k)
    THEN [i \in DOMAIN d |-> IF d[i].alpha = k THEN [alpha |-> k, cost |-> x] ELSE d[i]]
    ELSE Append(d, [alpha |-> k, cost |-> x])

DictGet(d, k) == d[CHOOSE i \in DOMAIN d : d[i].alpha = k].cost

Keys(d) == {d[i].alpha : i \in DOMAIN d}

IsRaise(r) == r.kind \notin {"costs", "inf"}

\* What the sweep keeps of a builder's run: [status, H].
BuiltTree(st) == [status |-> st.status, H |-> st.H]

\* The tree built for one alpha of the sweep, as [status, H].
SweepTree(G, alpha) ==
    IF alpha = 0 THEN [status |-> "returned", H |-> satellite_tree(G)]
    ELSE BuiltTree(pareto_steiner_fast(G, alpha))

\* A slip in the evaluation: the delay is summed over every node of the tree.
SweepCostsAllNodes(H, critical_nodes) == graph_costs(H, NoFilter)

\* graph_costs(H, critical_nodes=critical_nodes)
SweepCosts(H, critical_nodes) == graph_costs(H, Filter(Range(critical_nodes)))

PfCalled == [status |-> "called", critical_nodes |-> <<>>, actual |-> Pending,
             front |-> <<>>, i |-> 1]

\* The locals once graph_costs(G, critical_nodes) has answered.
PfActual(loc, critical_nodes, actual) ==
    [loc EXCEPT !.critical_nodes = critical_nodes,
                !.actual = actual,
                !.status = IF IsRaise(actual) THEN actual.kind ELSE "loop"]

\* graph_costs(G, critical_nodes=critical_nodes) on the plant itself
PfCosts(G, loc, critical_nodes) ==
    PfActual(loc, critical_nodes, graph_costs(G, Filter(Range(critical_nodes))))

\* Lines 720-727: the critical nodes and the costs of the plant itself.
PfEnter(G, loc) == PfCosts(G, loc, get_critical_nodes(G))

\* front[alpha] = graph_costs(...), unless the call raised.
PfStore(loc, alpha, costs) ==
    IF IsRaise(costs) THEN [loc EXCEPT !.status = costs.kind]
    ELSE [loc EXCEPT !.front = DictSet(@, alpha, costs), !.i = @ + 1]

\* The tree T of this alpha evaluated and stored.
PfEvaluate(loc, alpha, T) ==
    IF T.status # "returned" THEN [loc EXCEPT !.status = T.status]
    ELSE PfStore(loc, alpha, SweepCosts(T.H, loc.critical_nodes))

\* One pass of "for alpha in DEFAULT_ALPHAS".
PfStep(G, loc) ==
    PfEvaluate(loc, DEFAULT_ALPHAS[loc.i], SweepTree(G, DEFAULT_ALPHAS[loc.i]))

(***************************************************************************)
(* Exact arithmetic for quantify.py.  A number is a rational <<n, d>> in   *)
(* lowest terms with d > 0; float("inf") is <<1, 0>>.                      *)
(***************************************************************************)
Abs(x) == IF x < 0 THEN -x ELSE x

RECURSIVE Gcd(_, _)
Gcd(a, b) == IF b = 0 THEN a ELSE Gcd(b, a % b)

Sign(x) == IF x < 0 THEN -1 ELSE 1

\* n / d in lowest terms, d # 0
Lowest(n, d, g) == <<(Sign(d) * n) \div g, (Sign(d) * d) \div g>>

Rat(n, d) == Lowest(n, d, Gcd(Abs(n), Abs(d)))

Inf == <<1, 0>>

RatAddOver(x, y, g) ==
    Rat(x[1] * (y[2] \div g) + y[1] * (x[2] \div g), (x[2] \div g) * y[2])

RatAdd(x, y) == RatAddOver(x, y, Gcd(x[2], y[2]))

RatNeg(x) == <<-x[1], x[2]>>

RatSub(x, y) == RatAdd(x, RatNeg(y))

RatMulOver(x, y, g, h) ==
    Rat((x[1] \div g) * (y[1] \div h), (x[2] \div h) * (y[2] \div g))

RatMul(x, y) ==
    RatMulOver(x, y, Max2(1, Gcd(Abs(x[1]), y[2])), Max2(1, Gcd(Abs(y[1]), x[2])))

\* x / y, y # 0
RatDiv(x, y) == RatMul(x, Rat(y[2], y[1]))

RatLt(x, y) == x[1] * y[2] < y[1] * x[2]

RatLeq(x, y) == x[1] * y[2] <= y[1] * x[2]

RatMax(x, y) == IF RatLt(x, y) THEN y ELSE x

RatMin(x, y) == IF RatLt(y, x) THEN y ELSE x

\* max(...) of a non-empty sequence of numbers
RECURSIVE RatMaxSeq(_)
RatMaxSeq(s) ==
    IF Len(s) = 1 THEN s[1] ELSE RatMax(RatMaxSeq(SubSeq(s, 1, Len(s) - 1)), s[Len(s)])

RECURSIVE RatSumSeq(_)
RatSumSeq(s) ==
    IF s = <<>> THEN <<0, 1>> ELSE RatAdd(RatSumSeq(SubSeq(s, 1, Len(s) - 1)), s[Len(s)])

\* rel_tol = 1e-9 is 1 / RelTolInv
RelTolInv == 1000000000

\* |x - y| <= rel_tol * max(|x|, |y|), both sides over the denominator x[2] * y[2]
IsCloseOver(diff, larger) == diff <= larger \div RelTolInv

\* math.isclose(x, y, rel_tol=1e-9)
isclose(x, y) ==
    IsCloseOver(Abs(x[1] * y[2] - y[1] * x[2]), Max2(Abs(x[1]) * y[2], Abs(y[1]) * x[2]))

\* A trade-off weight given in hundredths, as a number.
Weight(a) == Rat(a, 100)

(***************************************************************************)
(* distance_from_front and distance_from_front_3d.  A front is a dict: a   *)
(* sequence of entries [key, cost] in insertion order, the key an alpha in *)
(* hundredths (2D) or a pair <<alpha, beta>> (3D), the cost a tuple of     *)
(* integers.  distances is the sequence of [key, eps, ratios] in insertion *)
(* order.  A call yields a record whose status is "returned" or the        *)
(* exception raised.                                                       *)
(***************************************************************************)
\* alpha_tree[0] == 0 or alpha_tree[1] == 0; any(v == 0 for v in alpha_beta_tree)
Skipped(cost) == \E i \in DOMAIN cost : cost[i] = 0

\* A slip in the ratio: front over actual.
RatiosInverted(actual_tree, cost) == [i \in DOMAIN cost |-> Rat(cost[i], actual_tree[i])]

\* actual_tree[i] / alpha_tree[i]
Ratios(actual_tree, cost) == [i \in DOMAIN cost |-> Rat(actual_tree[i], cost[i])]

DistanceOf(key, ratios) == [key |-> key, eps |-> RatMaxSeq(ratios), ratios |-> ratios]

\* The loop over front.items()
RECURSIVE Distances(_, _)
Distances(front, actual_tree) ==
    IF front = <<>> THEN <<>>
    ELSE IF Skipped(Head(front).cost) THEN Distances(Tail(front), actual_tree)
    ELSE <<DistanceOf(Head(front).key, Ratios(actual_tree, Head(front).cost))>>
         \o Distances(Tail(front), actual_tree)

\* A slip in the order: x goes before the first item that is strictly closer.
RECURSIVE InsertByEpsDescending(_, _)
InsertByEpsDescending(sorted, x) ==
    IF sorted = <<>> THEN <<x>>
    ELSE IF RatLt(Head(sorted).eps, x.eps) THEN <<x>> \o sorted
    ELSE <<Head(sorted)>> \o InsertByEpsDescending(Tail(sorted), x)

\* x goes before the first item that is strictly farther
\* A slip in the order: x goes before the first item that is not closer, so
\* that equal items come out in reverse insertion order.
RECURSIVE InsertByEpsBeforeTies(_, _)
InsertByEpsBeforeTies(sorted, x) ==
    IF sorted = <<>> THEN <<x>>
    ELSE IF RatLeq(x.eps, Head(sorted).eps) THEN <<x>> \o sorted
    ELSE <<Head(sorted)>> \o InsertByEpsBeforeTies(Tail(sorted), x)

RECURSIVE InsertByEps(_, _)
InsertByEps(sorted, x) ==
    IF sorted = <<>> THEN <<x>>
    ELSE IF RatLt(x.eps, Head(sorted).eps) THEN <<x>> \o sorted
    ELSE <<Head(sorted)>> \o InsertByEps(Tail(sorted), x)

\* sorted(distances.items(), key=lambda x: x[1]), stable
RECURSIVE SortedByEps(_)
SortedByEps(items) ==
    IF items = <<>> THEN <<>>
    ELSE InsertByEps(SortedByEps(SubSeq(items, 1, Len(items) - 1)), items[Len(items)])

Raise(what) == [status |-> what]

Return2D(interpolated_alpha, dist1) ==
    [status |-> "returned", alpha |-> interpolated_alpha, epsilon |-> dist1]

\* A slip in the weights: each key is weighted by its own distance.
Interpolate2DOverOwn(alpha1, dist1, alpha2, dist2, total_dist) ==
    IF total_dist[1] = 0 THEN Raise("ZeroDivisionError")
    ELSE Return2D(RatAdd(RatMul(Weight(alpha1), RatDiv(dist1, total_dist)),
                         RatMul(Weight(alpha2), RatDiv(dist2, total_dist))),
                  dist1)

\* alpha1 * weight1 + alpha2 * weight2 with weight1 = dist2 / total_dist
Interpolate2DOver(alpha1, dist1, alpha2, dist2, total_dist) ==
    IF total_dist[1] = 0 THEN Raise("ZeroDivisionError")
    ELSE Return2D(RatAdd(RatMul(Weight(alpha1), RatDiv(dist2, total_dist)),
                         RatMul(Weight(alpha2), RatDiv(dist1, total_dist))),
                  dist1)

Interpolate2D(closest, second_closest) ==
    IF isclose(closest.eps, second_closest.eps)
    THEN Return2D(Weight(closest.key), closest.eps)
    ELSE Interpolate2DOver(closest.key, closest.eps,
                           second_closest.key, second_closest.eps,
                           RatAdd(closest.eps, second_closest.eps))

Closest2D(sorted_alphas) ==
    IF sorted_alphas = <<>> THEN Raise("IndexError")
    ELSE Interpolate2D(sorted_alphas[1],
                       IF Len(sorted_alphas) > 1 THEN sorted_alphas[2]
                       ELSE sorted_alphas[1])

distance_from_front(front, actual_tree) ==
    Closest2D(SortedByEps(Distances(front, actual_tree)))

Zero == <<0, 1>>

One == <<1, 1>>

\* The guard added to every distance before it is inverted: 1 / EpsGuardInv.
eps_guard == Rat(1, EpsGuardInv)

\* front.get(key, [0.0, 0.0, 0.0])
FrontGet(front, key, default) ==
    IF \E i \in DOMAIN front : front[i].key = key
    THEN front[CHOOSE i \in DOMAIN front : front[i].key = key].cost
    ELSE default

corner_costs(front) ==
    [steiner |-> FrontGet(front, <<100, 0>>, <<0, 0, 0>>),
     satellite |-> FrontGet(front, <<0, 100>>, <<0, 0, 0>>),
     coverage |-> FrontGet(front, <<0, 0>>, <<0, 0, 0>>)]

\* A slip in the fallback: every weight is zero.
SentinelAllZero ==
    [status |-> "returned", epsilon |-> Inf, alpha |-> Zero, beta |-> Zero,
     gamma |-> Zero, epsilon_components |-> <<Inf, Inf, Inf>>,
     corner_costs |-> corner_costs(<<>>)]

\* The result when no point of the front is valid.
Sentinel ==
    [status |-> "returned", epsilon |-> Inf, alpha |-> Zero, beta |-> Zero,
     gamma |-> One, epsilon_components |-> <<Inf, Inf, Inf>>,
     corner_costs |-> corner_costs(<<>>)]

\* A slip in the last weight: gamma = 1.0 - alpha.
Return3DGammaOfAlpha(front, closest, alpha, beta) ==
    [status |-> "returned", epsilon |-> closest.eps, alpha |-> alpha, beta |-> beta,
     gamma |-> RatSub(One, alpha),
     epsilon_components |-> closest.ratios,
     corner_costs |-> corner_costs(front)]

\* gamma = 1.0 - alpha - beta and the returned dict
Return3D(front, closest, alpha, beta) ==
    [status |-> "returned", epsilon |-> closest.eps, alpha |-> alpha, beta |-> beta,
     gamma |-> RatSub(RatSub(One, alpha), beta),
     epsilon_components |-> closest.ratios,
     corner_costs |-> corner_costs(front)]

\* beta = max(0.0, min(1.0 - alpha, beta))
ClampBeta(front, closest, alpha, beta) ==
    Return3D(front, closest, alpha, RatMax(Zero, RatMin(RatSub(One, alpha), beta)))

\* alpha = max(0.0, min(1.0, alpha))
Clamp(front, closest, alpha, beta) ==
    ClampBeta(front, closest, RatMax(Zero, RatMin(One, alpha)), beta)

\* sum(w * ab[axis] for w, (ab, _) in zip(normalized_weights, closest_points))
Blend(normalized_weights, closest_points, axis) ==
    RatSumSeq([i \in DOMAIN closest_points |->
                  RatMul(normalized_weights[i], Weight(closest_points[i].key[axis]))])

BlendNormalized(front, closest_points, normalized_weights) ==
    Clamp(front, closest_points[1],
          Blend(normalized_weights, closest_points, 1),
          Blend(normalized_weights, closest_points, 2))

\* normalized_weights = [w / total_weight for w in weights]
Normalize(front, closest_points, weights, total_weight) ==
    IF total_weight[1] = 0 THEN Raise("ZeroDivisionError")
    ELSE BlendNormalized(front, closest_points,
                         [i \in DOMAIN weights |-> RatDiv(weights[i], total_weight)])

\* total_weight = sum(weights)
SumWeights(front, closest_points, weights) ==
    Normalize(front, closest_points, weights, RatSumSeq(weights))

\* weights.append(1.0 / (dist + eps_guard))
InvertGuarded(front, closest_points, guarded) ==
    IF \E i \in DOMAIN guarded : guarded[i][1] = 0 THEN Raise("ZeroDivisionError")
    ELSE SumWeights(front, closest_points,
                    [i \in DOMAIN guarded |-> RatDiv(One, guarded[i])])

Interpolate3D(front, closest_points) ==
    IF Len(closest_points) = 1
    THEN Return3D(front, closest_points[1],
                  Weight(closest_points[1].key[1]), Weight(closest_points[1].key[2]))
    ELSE InvertGuarded(front, closest_points,
                       [i \in DOMAIN closest_points |->
                           RatAdd(closest_points[i].eps, eps_guard)])

\* closest_points = sorted_points[:min(3, len(sorted_points))]
Closest3D(front, sorted_points) ==
    Interpolate3D(front, SubSeq(sorted_points, 1, Min2(3, Len(sorted_points))))

Nearest3D(front, distances) ==
    IF distances = <<>> THEN Sentinel ELSE Closest3D(front, SortedByEps(distances))

distance_from_front_3d(front, actual_tree) ==
    Nearest3D(front, Distances(front, actual_tree))

(***************************************************************************)
(* calculate_tradeoff(front, actual_tree).  None is the empty tuple; the   *)
(* other fields are numbers.                                               *)
(***************************************************************************)
None == <<>>

\* min(front_points, key=lambda x: x[axis]): the first point with the least key
RECURSIVE MinByAxis(_, _, _)
MinByAxis(best, points, axis) ==
    IF points = <<>> THEN best
    ELSE IF Head(points)[axis] < best[axis] THEN MinByAxis(Head(points), Tail(points), axis)
    ELSE MinByAxis(best, Tail(points), axis)

\* A slip in the corner: the least key is taken on the other axis.
MinPointOtherAxis(points, axis) == MinByAxis(Head(points), Tail(points), 3 - axis)

MinPoint(points, axis) == MinByAxis(Head(points), Tail(points), axis)

EmptyTradeoff ==
    [status |-> "returned", Tradeoff |-> None, Steiner_length |-> None,
     Steiner_distance |-> None, Satellite_length |-> None,
     Satellite_distance |-> None, Actual_ratio |-> None, Optimal_ratio |-> None]

\* A slip in the guard: only a missing ratio withholds the tradeoff.
TradeoffValueUnguarded(actual_ratio, optimal_ratio) ==
    IF optimal_ratio = None \/ actual_ratio = None THEN None
    ELSE IF optimal_ratio[1] = 0 THEN Inf
    ELSE RatDiv(actual_ratio, optimal_ratio)

\* Lines 886-890
TradeoffValue(actual_ratio, optimal_ratio) ==
    IF optimal_ratio = None \/ optimal_ratio[1] = 0 \/ actual_ratio = None THEN None
    ELSE RatDiv(actual_ratio, optimal_ratio)

\* Lines 873-883
GuardedRatio(numerator, denominator) ==
    IF denominator = 0 THEN None ELSE Rat(numerator, denominator)

TradeoffResult(steiner_point, satellite_point, actual_ratio, optimal_ratio) ==
    [status |-> "returned",
     Tradeoff |-> TradeoffValue(actual_ratio, optimal_ratio),
     Steiner_length |-> Rat(steiner_point[1], 1),
     Steiner_distance |-> Rat(steiner_point[2], 1),
     Satellite_length |-> Rat(satellite_point[1], 1),
     Satellite_distance |-> Rat(satellite_point[2], 1),
     Actual_ratio |-> actual_ratio,
     Optimal_ratio |-> optimal_ratio]

TradeoffOf(steiner_point, satellite_point, actual_tree) ==
    TradeoffResult(steiner_point, satellite_point,
                   GuardedRatio(actual_tree[1], actual_tree[2]),
                   GuardedRatio(steiner_point[1], satellite_point[2]))

\* front_points = list(front.values())
front_values(front) == [i \in DOMAIN front |-> front[i].cost]

TradeoffCorners(front_points, actual_tree) ==
    IF Len(front_points) < 1 THEN EmptyTradeoff
    ELSE TradeoffOf(MinPoint(front_points, 1), MinPoint(front_points, 2), actual_tree)

calculate_tradeoff(front, actual_tree) ==
    TradeoffCorners(front_values(front), actual_tree)

(***************************************************************************)
(* random_tree(G).  A pass of the for loop builds one tree R from the      *)
(* draws of random.randrange: draws[j] holds the two numbers drawn in the  *)
(* j-th pass of the while loop (r_index is not drawn while R is empty).    *)
(* The lists random_trees and costs are kept as their lengths; R is the    *)
(* tree of the latest pass and sample the pair graph_costs gives for it,   *)
(* failure the first exception graph_costs raised ("none": none).          *)
(***************************************************************************)
RandomTreeCount == 1000

RemoveAt(seq, index) == SubSeq(seq, 1, index) \o SubSeq(seq, index + 2, Len(seq))

\* The draws that randrange can produce in passes j..k of the while loop for k
\* critical nodes.
RECURSIVE DrawsFrom(_, _)
DrawsFrom(j, k) ==
    IF j > k THEN {<<>>}
    ELSE {<<[index |-> a, r_index |-> b]>> \o rest :
             a \in 0..(k - j), b \in 0..Max2(j - 2, 0), rest \in DrawsFrom(j + 1, k)}

RandomDraws(k) == DrawsFrom(1, k)

\* A slip in the while loop: the drawn node is added without an edge.
AttachUnlinked(G, R, g, r_index) == set_pos(add_node(R, g), g, G.pos[g])

AttachTo(G, R, g, r) == add_edge(R, r, g, node_dist(R, r, g))

\* one pass of the while loop, g = G_critical_nodes[index]
Attach(G, R, g, r_index) ==
    IF Len(R.nodes) > 0
    THEN AttachTo(G, set_pos(add_node(R, g), g, G.pos[g]), g, R.nodes[r_index + 1])
    ELSE set_pos(add_node(R, g), g, G.pos[g])

RECURSIVE GrowTree(_, _, _, _)
GrowTree(G, R, G_critical_nodes, draws) ==
    IF Len(G_critical_nodes) > 0
    THEN GrowTree(G, Attach(G, R, G_critical_nodes[Head(draws).index + 1], Head(draws).r_index),
                  RemoveAt(G_critical_nodes, Head(draws).index), Tail(draws))
    ELSE R

RandomTreeOf(G, draws) == GrowTree(G, EmptyGraph, get_critical_nodes(G), draws)

RandomCalled ==
    [status |-> "running", i |-> 0, R |-> EmptyGraph, random_trees |-> 0,
     sample |-> Pending, failure |-> "none", costs |-> 0]

RandomFailure(st, sample) ==
    IF st.failure = "none" /\ sample.kind \notin {"costs", "inf"} THEN sample.kind
    ELSE st.failure

RandomAppend(st, R, sample) ==
    [st EXCEPT !.i = @ + 1, !.R = R, !.random_trees = @ + 1, !.sample = sample,
               !.failure = RandomFailure(st, sample)]

RandomSample(st, R) == RandomAppend(st, R, graph_costs(R, NoFilter))

RandomPass(G, st, draws) == RandomSample(st, RandomTreeOf(G, draws))

RandomFinish(st) ==
    IF st.failure = "none"
    THEN [st EXCEPT !.status = "returned", !.costs = st.random_trees]
    ELSE [st EXCEPT !.status = st.failure]

(***************************************************************************)
(* apply_scaling_transformation.  A string is the sequence of its          *)
(* characters, so that `excl in key` is a search for a contiguous          *)
(* subsequence.  results is a dict: a sequence of entries [key, value] in  *)
(* insertion order.  A value is a record [type, v]: a number ("number", v  *)
(* the one-element sequence of the number), a list of numbers ("list"), or *)
(* a non-empty text that float() does not parse ("str", v empty).          *)
(***************************************************************************)
\* "alpha_3d"
alpha_3d == <<"a", "l", "p", "h", "a", "_", "3", "d">>

\* "beta_3d"
beta_3d == <<"b", "e", "t", "a", "_", "3", "d">>

\* "gamma_3d"
gamma_3d == <<"g", "a", "m", "m", "a", "_", "3", "d">>

\* "epsilon_3d"
epsilon_3d == <<"e", "p", "s", "i", "l", "o", "n", "_", "3", "d">>

\* "epsilon_3d_material"
epsilon_3d_material == <<"e", "p", "s", "i", "l", "o", "n", "_", "3", "d", "_", "m", "a", "t", "e", "r", "i", "a", "l">>

\* "epsilon_3d_transport"
epsilon_3d_transport == <<"e", "p", "s", "i", "l", "o", "n", "_", "3", "d", "_", "t", "r", "a", "n", "s", "p", "o", "r", "t">>

\* "epsilon_3d_coverage"
epsilon_3d_coverage == <<"e", "p", "s", "i", "l", "o", "n", "_", "3", "d", "_", "c", "o", "v", "e", "r", "a", "g", "e">>

\* "Path tortuosity"
Path_tortuosity == <<"P", "a", "t", "h", " ", "t", "o", "r", "t", "u", "o", "s", "i", "t", "y">>

\* "Total root length"
Total_root_length == <<"T", "o", "t", "a", "l", " ", "r", "o", "o", "t", " ", "l", "e", "n", "g", "t", "h">>

\* "Travel distance"
Travel_distance == <<"T", "r", "a", "v", "e", "l", " ", "d", "i", "s", "t", "a", "n", "c", "e">>

\* "LR lengths"
LR_lengths == <<"L", "R", " ", "l", "e", "n", "g", "t", "h", "s">>

\* "LR minimal lengths"
LR_minimal_lengths == <<"L", "R", " ", "m", "i", "n", "i", "m", "a", "l", " ", "l", "e", "n", "g", "t", "h", "s">>

\* "LR count"
LR_count == <<"L", "R", " ", "c", "o", "u", "n", "t">>

\* "Steiner_length_3d"
Steiner_length_3d == <<"S", "t", "e", "i", "n", "e", "r", "_", "l", "e", "n", "g", "t", "h", "_", "3", "d">>

\* "filename"
filename == <<"f", "i", "l", "e", "n", "a", "m", "e">>

\* " (random)"
random_suffix == <<" ", "(", "r", "a", "n", "d", "o", "m", ")">>

\* excluded_fields when None is passed: the fifteen default patterns
default_excluded_fields ==
    { <<"L", "R", " ", "d", "e", "n", "s", "i", "t", "y">>,
      <<"a", "l", "p", "h", "a">>,
      <<"M", "e", "a", "n", " ", "L", "R", " ", "a", "n", "g", "l", "e", "s">>,
      <<"M", "e", "d", "i", "a", "n", " ", "L", "R", " ", "a", "n", "g", "l", "e", "s">>,
      <<"L", "R", " ", "a", "n", "g", "l", "e", "s">>,
      <<"L", "R", " ", "c", "o", "u", "n", "t">>,
      <<"B", "r", "a", "n", "c", "h", "e", "d", " ", "Z", "o", "n", "e", " ", "d", "e", "n", "s", "i", "t", "y">>,
      <<"s", "c", "a", "l", "i", "n", "g", " ", "d", "i", "s", "t", "a", "n", "c", "e", " ", "t", "o", " ", "f", "r", "o", "n", "t">>,
      <<"T", "o", "r", "t", "u", "o", "s", "i", "t", "y">>,
      <<"s", "c", "a", "l", "i", "n", "g", " ", "(", "r", "a", "n", "d", "o", "m", ")">>,
      <<"T", "r", "a", "d", "e", "o", "f", "f">>,
      <<"A", "c", "t", "u", "a", "l", "_", "r", "a", "t", "i", "o">>,
      <<"O", "p", "t", "i", "m", "a", "l", "_", "r", "a", "t", "i", "o">>,
      <<"P", "a", "t", "h", " ", "t", "o", "r", "t", "u", "o", "s", "i", "t", "y">>,
      <<"a", "l", "p", "h", "a", "_", "b", "e", "t", "a">>}

\* excl in key
Contains(key, excl) ==
    \E i \in 0 .. (Len(key) - Len(excl)) : SubSeq(key, i + 1, i + Len(excl)) = excl

\* any(excl in key for excl in excluded_fields)
Excluded(key, excluded_fields) == \E excl \in excluded_fields : Contains(key, excl)

Number(x) == [type |-> "number", v |-> <<x>>]

\* [float(v) * scale_factor for v in value]; iterating a number raises
\* TypeError, float() of a character of the text raises ValueError
ScaleElements(value, scale_factor) ==
    IF value.type = "list"
    THEN [type |-> "list", v |-> [i \in DOMAIN value.v |-> RatMul(value.v[i], scale_factor)]]
    ELSE value

\* float(value) * scale_factor; float() of a list raises TypeError, of the
\* text ValueError
ScaleNumber(value, scale_factor) ==
    IF value.type = "number" THEN Number(RatMul(value.v[1], scale_factor)) ELSE value

\* The body of the loop over results.items()
ScaleEntry(key, value, scale_factor, excluded_fields) ==
    IF Excluded(key, excluded_fields) THEN value
    ELSE IF key \in {LR_lengths, LR_minimal_lengths} THEN ScaleElements(value, scale_factor)
    ELSE ScaleNumber(value, scale_factor)

ScaleOver(results, scale_factor, excluded_fields) ==
    [i \in DOMAIN results |->
        [key |-> results[i].key,
         value |-> ScaleEntry(results[i].key, results[i].value, scale_factor, excluded_fields)]]

apply_scaling_transformation(results, scale_factor) ==
    ScaleOver(results, scale_factor, default_excluded_fields)

(***************************************************************************)
(* Specification SpecCosts: graph_costs applied to every small weighted    *)
(* graph, with and without a critical-node filter.                         *)
(***************************************************************************)
\* The variables of the components a specification does not exercise.
CostsIdle == gcG = EmptyGraph /\ gcCrit = NoFilter /\ gcResult = Raised("idle")

BuilderIdle == bP = <<>> /\ bSt = <<>>

FrontIdle == pfG = EmptyGraph /\ pf = <<>>

DistIdle == dfDim = 0 /\ dfFront = <<>> /\ dfActual = <<>> /\ dfResult = Raise("idle")

RandomIdle == rtG = EmptyGraph /\ rt = <<>>

HelperIdle == hFn = "none" /\ hG = EmptyGraph /\ hResult = <<>>

CostNodeSets == {0 .. (n - 1) : n \in 1..MaxN} \cup {1 .. (n - 1) : n \in 2..MaxN}

PotEdges(N) == {e \in N \X N : e[1] <= e[2]}

NoPos(N) == [n \in N |-> <<0, 0>>]

CostsInit ==
    /\ \E N \in CostNodeSets :
         \E E \in {F \in SUBSET PotEdges(N) : Cardinality(F) <= MaxEdges} :
           \E w \in [E -> 1..MaxWeight] :
             \E rev \in BOOLEAN :
               gcG = MakeGraph(N, w, NoPos(N), rev)
    /\ \E S \in SUBSET (0 .. (MaxN - 1)) : gcCrit \in {NoFilter, Filter(S)}
    /\ gcResult = Pending
    /\ BuilderIdle
    /\ FrontIdle
    /\ DistIdle
    /\ RandomIdle
    /\ HelperIdle

CallGraphCosts ==
    /\ gcResult.kind = "pending"
    /\ gcResult' = graph_costs(gcG, gcCrit)
    /\ UNCHANGED <<gcG, gcCrit, builderVars, frontVars, distVars, randomVars, helperVars>>

CostsNext == CallGraphCosts

SpecCosts == CostsInit /\ [][CostsNext]_vars

(***************************************************************************)
(* Specification SpecSteiner: the greedy builders on every small input     *)
(* tree laid out on the grid, for sampled weights, one action per pass of  *)
(* the while loop.  The set unpaired_nodes is iterated in ascending or in  *)
(* descending order of node id.                                            *)
(***************************************************************************)
RECURSIVE EdgeClosure(_, _)
EdgeClosure(E, S) ==
    LET T == S \cup {e[1] : e \in {f \in E : f[2] \in S}}
                 \cup {e[2] : e \in {f \in E : f[1] \in S}}
    IN IF T = S THEN S ELSE EdgeClosure(E, T)

\* The edge sets of the trees on the nodes 0 .. n-1.
TreeEdgeSets(n) ==
    {E \in SUBSET {e \in (0 .. (n - 1)) \X (0 .. (n - 1)) : e[1] < e[2]} :
        Cardinality(E) = n - 1 /\ EdgeClosure(E, {0}) = 0 .. (n - 1)}

GridPoints == {<<x * Unit, y * Unit>> : x \in 0..GridMax, y \in 0..GridMax}

\* A root system: a tree whose edge weights are the distances of its ends.
RootGraph(n, E, pos, rev) ==
    MakeGraph(0 .. (n - 1), [e \in E |-> point_dist(pos[e[1]], pos[e[2]])], pos, rev)

\* The root systems of at most nmax nodes, in either node order.
TreeInputs(nmax) ==
    UNION {{RootGraph(n, E, pos, rev) :
               E \in TreeEdgeSets(n), pos \in [0 .. (n - 1) -> GridPoints],
               rev \in BOOLEAN} : n \in 1..nmax}

\* Hundredths: -1/k, 0, 1/k, ..., 1, 1 + 1/k for k = WeightSamples.
SampledWeights == {(100 * i) \div WeightSamples : i \in -1 .. (WeightSamples + 1)}

SteinerInit ==
    /\ \E G \in TreeInputs(MaxTreeN), dim \in {2, 3}, alpha \in SampledWeights :
         \E beta \in (IF dim = 3 THEN SampledWeights ELSE {0}) :
            bP = [G |-> G, dim |-> dim, alpha |-> alpha, beta |-> beta]
    /\ bSt = BuilderStart(bP)
    /\ CostsIdle
    /\ FrontIdle
    /\ DistIdle
    /\ RandomIdle
    /\ HelperIdle

BuilderIterate ==
    /\ bSt.status = "running"
    /\ LoopGuard(bP, bSt)
    /\ \E order \in {AscSeq(bSt.unpaired_nodes), Reverse(AscSeq(bSt.unpaired_nodes))} :
          bSt' = Iterate(bP, bSt, order)
    /\ UNCHANGED <<bP, costVars, frontVars, distVars, randomVars, helperVars>>

BuilderReturn ==
    /\ bSt.status = "running"
    /\ ~LoopGuard(bP, bSt)
    /\ bSt' = [bSt EXCEPT !.status = "returned"]
    /\ UNCHANGED <<bP, costVars, frontVars, distVars, randomVars, helperVars>>

SteinerNext == BuilderIterate \/ BuilderReturn

SpecSteiner == SteinerInit /\ [][SteinerNext]_vars

\* The calls of pareto_steiner_fast.  The while loop is a sequential loop: a call
\* that can take a step takes it.  For BuilderIterate weak fairness is written
\* out, with ENABLED <<BuilderIterate>>_vars as the state predicate it equals
\* (a pass always changes bSt).
Steiner2DInit == SteinerInit /\ bP.dim = 2

PassEnabled == bSt.status = "running" /\ LoopGuard(bP, bSt)

SteinerFairness ==
    /\ WF_vars(BuilderReturn)
    /\ <>[]PassEnabled => []<><<BuilderIterate>>_vars

SpecSteinerFair == Steiner2DInit /\ [][SteinerNext]_vars /\ SteinerFairness

(***************************************************************************)
(* Specification SpecFront: pareto_front on the input trees that have the  *)
(* base at the grid origin and iterate their nodes in ascending order, one *)
(* action per value of the sweep.                                          *)
(***************************************************************************)
FrontInputs(nmax) ==
    {G \in TreeInputs(nmax) : G.pos[0] = <<0, 0>> /\ G.nodes = AscSeq(NodeSet(G))}

FrontInit ==
    /\ pfG \in FrontInputs(MaxTreeN)
    /\ pf = PfCalled
    /\ CostsIdle
    /\ BuilderIdle
    /\ DistIdle
    /\ RandomIdle
    /\ HelperIdle

FrontEnter ==
    /\ pf.status = "called"
    /\ pf' = PfEnter(pfG, pf)
    /\ UNCHANGED <<pfG, costVars, builderVars, distVars, randomVars, helperVars>>

FrontStep ==
    /\ pf.status = "loop"
    /\ pf.i <= Len(DEFAULT_ALPHAS)
    /\ pf' = PfStep(pfG, pf)
    /\ UNCHANGED <<pfG, costVars, builderVars, distVars, randomVars, helperVars>>

FrontReturn ==
    /\ pf.status = "loop"
    /\ pf.i > Len(DEFAULT_ALPHAS)
    /\ pf' = [pf EXCEPT !.status = "returned"]
    /\ UNCHANGED <<pfG, costVars, builderVars, distVars, randomVars, helperVars>>

FrontNext == FrontEnter \/ FrontStep \/ FrontReturn

SpecFront == FrontInit /\ [][FrontNext]_vars

(***************************************************************************)
(* Specification SpecDist: distance_from_front and distance_from_front_3d  *)
(* applied to small fronts and cost vectors.  Front keys are the sampled   *)
(* weights in [0, 1] (2D, in any insertion order) and the sampled pairs    *)
(* with alpha + beta <= 1 (3D, in the order of the sweep); costs are small *)
(* integers, zeros included.  3D fronts have up to MaxFront + 1 entries,   *)
(* so that a valid point can be left out of the three closest.             *)
(***************************************************************************)
WeightKeys == {a \in SampledWeights : a >= 0 /\ a <= 100}

CostTuples(n) == [1 .. n -> 0 .. MaxCost]

DistinctKeys(f) == \A i, j \in DOMAIN f : i # j => f[i].key # f[j].key

\* The 2D fronts of at most kmax entries.
Fronts2D(kmax) ==
    UNION {{f \in [1 .. k -> [key : WeightKeys, cost : CostTuples(2)]] : DistinctKeys(f)} :
              k \in 0 .. kmax}

RECURSIVE Concat(_)
Concat(ss) == IF ss = <<>> THEN <<>> ELSE Head(ss) \o Concat(Tail(ss))

BetasFor(a) == AscSeq({b \in WeightKeys : a + b <= 100})

KeysFor(a) == [j \in DOMAIN BetasFor(a) |-> <<a, BetasFor(a)[j]>>]

\* The (alpha, beta) keys in the order a sweep over alpha, then beta, inserts them.
SweepKeys3D == Concat([i \in DOMAIN AscSeq(WeightKeys) |-> KeysFor(AscSeq(WeightKeys)[i])])

\* Cost vectors without a zero (distance and tortuosity alike), and two with zeros.
Costs3D ==
    {c \in [1 .. 3 -> 1 .. MaxCost] : c[2] = c[3]} \cup {<<0, 0, 0>>, <<1, 1, 0>>}

\* The first keys of the sweep, at most kmax of them.
KeyRuns(kmax) == {SubSeq(SweepKeys3D, 1, k) : k \in 0 .. kmax}

\* The 3D fronts of at most kmax entries.
Fronts3D(kmax) ==
    UNION {{[i \in DOMAIN keys |-> [key |-> keys[i], cost |-> c[i]]] :
               c \in [DOMAIN keys -> Costs3D]} : keys \in KeyRuns(kmax)}

\* Cost vectors of a plant, and one below zero.
Actuals3D == CostTuples(3) \cup {<<-1, -1, -1>>}

DistInit ==
    /\ dfDim \in {2, 3}
    /\ dfFront \in (IF dfDim = 2 THEN Fronts2D(MaxFront) ELSE Fronts3D(MaxFront + 1))
    /\ dfActual \in (IF dfDim = 2 THEN CostTuples(2) ELSE Actuals3D)
    /\ dfResult = Raise("pending")
    /\ CostsIdle
    /\ BuilderIdle
    /\ FrontIdle
    /\ RandomIdle
    /\ HelperIdle

CallDistance2D ==
    /\ dfDim = 2
    /\ dfResult.status = "pending"
    /\ dfResult' = distance_from_front(dfFront, dfActual)
    /\ UNCHANGED <<dfDim, dfFront, dfActual, costVars, builderVars, frontVars, randomVars, helperVars>>

CallDistance3D ==
    /\ dfDim = 3
    /\ dfResult.status = "pending"
    /\ dfResult' = distance_from_front_3d(dfFront, dfActual)
    /\ UNCHANGED <<dfDim, dfFront, dfActual, costVars, builderVars, frontVars, randomVars, helperVars>>

DistNext == CallDistance2D \/ CallDistance3D

SpecDist == DistInit /\ [][DistNext]_vars

(***************************************************************************)
(* Specification SpecTradeoff: calculate_tradeoff applied to the 2D fronts *)
(* and cost pairs of SpecDist.                                             *)
(***************************************************************************)
TradeoffInit ==
    /\ dfDim = 2
    /\ dfFront \in Fronts2D(MaxFront)
    /\ dfActual \in CostTuples(2)
    /\ dfResult = Raise("pending")
    /\ CostsIdle
    /\ BuilderIdle
    /\ FrontIdle
    /\ RandomIdle
    /\ HelperIdle

CallTradeoff ==
    /\ dfResult.status = "pending"
    /\ dfResult' = calculate_tradeoff(dfFront, dfActual)
    /\ UNCHANGED <<dfDim, dfFront, dfActual, costVars, builderVars, frontVars, randomVars, helperVars>>

TradeoffNext == CallTradeoff

SpecTradeoff == TradeoffInit /\ [][TradeoffNext]_vars

(***************************************************************************)
(* Specification SpecRandom: random_tree on the input trees of SpecFront   *)
(* that lie on the first axis of the grid, one action per pass of the for  *)
(* loop, for every outcome of the draws.                                   *)
(***************************************************************************)
RandomInputs(nmax) == {G \in FrontInputs(nmax) : \A n \in NodeSet(G) : G.pos[n][2] = 0}

RandomInit ==
    /\ rtG \in RandomInputs(MaxTreeN)
    /\ rt = RandomCalled
    /\ CostsIdle
    /\ BuilderIdle
    /\ FrontIdle
    /\ DistIdle
    /\ HelperIdle

RandomStep ==
    /\ rt.status = "running"
    /\ rt.i < RandomTreeCount
    /\ \E draws \in RandomDraws(Len(get_critical_nodes(rtG))) :
          rt' = RandomPass(rtG, rt, draws)
    /\ UNCHANGED <<rtG, costVars, builderVars, frontVars, distVars, helperVars>>

RandomReturn ==
    /\ rt.status = "running"
    /\ rt.i = RandomTreeCount
    /\ rt' = RandomFinish(rt)
    /\ UNCHANGED <<rtG, costVars, builderVars, frontVars, distVars, helperVars>>

RandomNext == RandomStep \/ RandomReturn

SpecRandom == RandomInit /\ [][RandomNext]_vars

(***************************************************************************)
(* Specification SpecSatellite: satellite_tree applied to the root systems *)
(* of up to MaxTreeN + 1 nodes.                                            *)
(***************************************************************************)
HelperCalled == [status |-> "pending", value |-> <<>>]

HelperReturned(value) == [status |-> "returned", value |-> value]

SatelliteInit ==
    /\ hFn = "satellite_tree"
    /\ hG \in TreeInputs(MaxTreeN + 1)
    /\ hResult = HelperCalled
    /\ CostsIdle
    /\ BuilderIdle
    /\ FrontIdle
    /\ DistIdle
    /\ RandomIdle

CallSatellite ==
    /\ hFn = "satellite_tree"
    /\ hResult.status = "pending"
    /\ hResult' = HelperReturned(satellite_tree(hG))
    /\ UNCHANGED <<hFn, hG, costVars, builderVars, frontVars, distVars, randomVars>>

SatelliteNext == CallSatellite

SpecSatellite == SatelliteInit /\ [][SatelliteNext]_vars

(***************************************************************************)
(* Specification SpecCritical: get_critical_nodes applied to the graphs of *)
(* SpecCosts: with and without node 0, with cycles and self-loops,         *)
(* connected or not, in either node order.                                 *)
(***************************************************************************)
CriticalInit ==
    /\ hFn = "get_critical_nodes"
    /\ \E N \in CostNodeSets :
         \E E \in {F \in SUBSET PotEdges(N) : Cardinality(F) <= MaxEdges} :
           \E w \in [E -> 1..MaxWeight] :
             \E rev \in BOOLEAN :
               hG = MakeGraph(N, w, NoPos(N), rev)
    /\ hResult = HelperCalled
    /\ CostsIdle
    /\ BuilderIdle
    /\ FrontIdle
    /\ DistIdle
    /\ RandomIdle

CallCritical ==
    /\ hFn = "get_critical_nodes"
    /\ hResult.status = "pending"
    /\ hResult' = HelperReturned(get_critical_nodes(hG))
    /\ UNCHANGED <<hFn, hG, costVars, builderVars, frontVars, distVars, randomVars>>

CriticalNext == CallCritical

SpecCritical == CriticalInit /\ [][CriticalNext]_vars

(***************************************************************************)
(* Specification SpecScaling: apply_scaling_transformation with the        *)
(* default exclusion patterns, applied to every results dict of at most    *)
(* MaxFields entries over the field names of the 2D and 3D analyses, with  *)
(* numbers, lists and texts as values.                                     *)
(***************************************************************************)
WithRandom(keys) == keys \cup {key \o random_suffix : key \in keys}

\* The 3D fields that hold weights and ratios.
Weights3D == WithRandom({alpha_3d, beta_3d, gamma_3d})

Epsilons3D == WithRandom({epsilon_3d, epsilon_3d_material, epsilon_3d_transport, epsilon_3d_coverage})

LengthFields == WithRandom({Total_root_length, Travel_distance}) \cup {Steiner_length_3d}

FieldKeys ==
    Weights3D \cup Epsilons3D \cup WithRandom({Path_tortuosity}) \cup LengthFields
        \cup {LR_lengths, LR_minimal_lengths, LR_count, filename}

Text == [type |-> "str", v |-> <<>>]

NumberList(xs) == [type |-> "list", v |-> xs]

SampleValues == {Number(One), Number(Rat(3, 2)), Text, NumberList(<<One, Rat(5, 1)>>)}

ScaleFactors == {Rat(2, 1), Rat(1, 100)}

\* The results dicts of at most kmax entries.
ScalingInputs(kmax) ==
    UNION {{f \in [1 .. k -> [key : FieldKeys, value : SampleValues]] : DistinctKeys(f)} :
              k \in 0 .. kmax}

ScalingInit ==
    /\ hFn = "apply_scaling_transformation"
    /\ \E results \in ScalingInputs(MaxFields) :
         \E scale_factor \in ScaleFactors :
           hG = [results |-> results, scale_factor |-> scale_factor]
    /\ hResult = HelperCalled
    /\ CostsIdle
    /\ BuilderIdle
    /\ FrontIdle
    /\ DistIdle
    /\ RandomIdle

CallScaling ==
    /\ hFn = "apply_scaling_transformation"
    /\ hResult.status = "pending"
    /\ hResult' = HelperReturned(apply_scaling_transformation(hG.results, hG.scale_factor))
    /\ UNCHANGED <<hFn, hG, costVars, builderVars, frontVars, distVars, randomVars>>

ScalingNext == CallScaling

SpecScaling == ScalingInit /\ [][ScalingNext]_vars

(***************************************************************************)
(* Specification SpecGreedy: the two builders on the root systems of       *)
(* MaxTreeN + 1 nodes whose nodes are all critical (the base and its       *)
(* leaves), so that after the first pass several tree nodes compete for    *)
(* several unplaced critical nodes.                                        *)
(***************************************************************************)
StarInputs(n) == {G \in TreeInputs(n) : Len(G.nodes) = n /\ Len(get_critical_nodes(G)) = n}

GreedyInit ==
    /\ \E G \in StarInputs(MaxTreeN + 1), dim \in {2, 3}, alpha \in SampledWeights :
         \E beta \in (IF dim = 3 THEN SampledWeights ELSE {0}) :
            bP = [G |-> G, dim |-> dim, alpha |-> alpha, beta |-> beta]
    /\ bSt = BuilderStart(bP)
    /\ CostsIdle
    /\ FrontIdle
    /\ DistIdle
    /\ RandomIdle
    /\ HelperIdle

SpecGreedy == GreedyInit /\ [][SteinerNext]_vars

(***************************************************************************)
(* Graph theory the claims are stated in, defined without the traversal of *)
(* graph_costs.                                                            *)
(***************************************************************************)
Adjacent(G, u, v) == EdgeKey(u, v) \in EdgeSet(G)

\* The nodes joined to a node of S by a path.
RECURSIVE Closure(_, _)
Closure(G, S) ==
    LET T == S \cup UNION {Range(G.adj[u]) : u \in S}
    IN IF T = S THEN S ELSE Closure(G, T)

ReachableFrom(G, from) == IF has_node(G, from) THEN Closure(G, {from}) ELSE {}

BaseComponent(G) == ReachableFrom(G, 0)

IsConnected(G) == BaseComponent(G) = NodeSet(G)

EdgesWithin(G, S) == {e \in EdgeSet(G) : e[1] \in S /\ e[2] \in S}

\* A connected node set S carries no cycle iff it has |S| - 1 edges (a self-loop
\* is an edge, and is a cycle).
AcyclicOn(G, S) == Cardinality(EdgesWithin(G, S)) = Cardinality(S) - 1

IsTree(G) == has_node(G, 0) /\ IsConnected(G) /\ AcyclicOn(G, NodeSet(G))

RECURSIVE SumFn(_, _)
SumFn(f, S) == IF S = {} THEN 0
               ELSE LET x == CHOOSE y \in S : TRUE IN f[x] + SumFn(f, S \ {x})

TotalWeight(G) == SumFn(G.weight, EdgeSet(G))

\* Length of the shortest path from node 0 to every node (-1: no path), by
\* relaxation to a fixed point.  In a tree it is the length of the one path.
RECURSIVE RelaxAll(_, _)
RelaxAll(G, d) ==
    LET via(n) == {d[m] + EdgeWeight(G, m, n) :
                     m \in {k \in Range(G.adj[n]) : d[k] >= 0}}
        best(n) == LET c == via(n) \cup (IF d[n] >= 0 THEN {d[n]} ELSE {})
                   IN IF c = {} THEN -1 ELSE SetMin(c)
        e == [n \in NodeSet(G) |-> best(n)]
    IN IF e = d THEN d ELSE RelaxAll(G, e)

PathLengths(G) == RelaxAll(G, [n \in NodeSet(G) |-> IF n = 0 THEN 0 ELSE -1])

\* The nodes whose path length graph_costs is documented to add up.
ContributingNodes(G, crit) ==
    {n \in NodeSet(G) \ {0} : (~crit.given) \/ n \in crit.nodes}

ExpectedDelay(G, crit) == SumFn(PathLengths(G), ContributingNodes(G, crit))

GcDone == gcResult.kind # "pending"

(***************************************************************************)
(* C3.  For every connected acyclic graph containing base node 0,          *)
(* graph_costs returns wiring = the sum of all edge weights and delay =    *)
(* the sum of the tree path lengths to the base over the contributing      *)
(* nodes: all non-base nodes without a filter, the non-base nodes of the   *)
(* filter with one.  The wiring does not depend on the filter.             *)
(***************************************************************************)
C3_TreeCosts ==
    (GcDone /\ IsTree(gcG)) =>
        /\ gcResult.kind = "costs"
        /\ gcResult.wiring = TotalWeight(gcG)
        /\ gcResult.delay = ExpectedDelay(gcG, gcCrit)

\* A three-node tree evaluated with a filter that keeps one non-base node and
\* drops another.
C3_Witness ==
    /\ gcResult.kind = "costs"
    /\ IsTree(gcG)
    /\ number_of_nodes(gcG) = 3
    /\ gcCrit.given
    /\ \E n, m \in NodeSet(gcG) \ {0} : n \in gcCrit.nodes /\ m \notin gcCrit.nodes
    /\ gcResult.delay > 0
    /\ gcResult.delay < ExpectedDelay(gcG, NoFilter)

(***************************************************************************)
(* C4.  For every graph with base node 0 whose part reachable from the     *)
(* base contains a cycle (a self-loop included), graph_costs returns the   *)
(* infinite sentinel; it does so inside the traversal, hence also when the *)
(* connectivity assertion that follows would have failed.                  *)
(***************************************************************************)
C4_CycleYieldsInf ==
    (GcDone /\ has_node(gcG, 0) /\ ~AcyclicOn(gcG, BaseComponent(gcG))) =>
        gcResult = InfCosts

\* A connected graph with a self-loop away from the base, evaluated.
C4_Witness ==
    /\ GcDone
    /\ has_node(gcG, 0)
    /\ IsConnected(gcG)
    /\ number_of_nodes(gcG) >= 2
    /\ \E n \in NodeSet(gcG) \ {0} : Adjacent(gcG, n, n)
    /\ gcResult.kind = "inf"

(***************************************************************************)
(* C5.  As claimed: for every graph (with base node 0) in which some node  *)
(* is not reachable from the base, graph_costs fails its connectivity      *)
(* assertion.                                                              *)
(***************************************************************************)
C5_Original ==
    (GcDone /\ has_node(gcG, 0) /\ ~IsConnected(gcG)) =>
        gcResult.kind = "AssertionError"

(***************************************************************************)
(* C5, amended.  For every graph with base node 0 in which some node is    *)
(* not reachable from the base and whose part reachable from the base is   *)
(* acyclic, graph_costs fails its connectivity assertion and returns no    *)
(* cost vector.                                                            *)
(***************************************************************************)
C5_DisconnectedAsserts ==
    (GcDone /\ has_node(gcG, 0) /\ ~IsConnected(gcG)
            /\ AcyclicOn(gcG, BaseComponent(gcG))) =>
        gcResult.kind = "AssertionError"

\* A graph whose base has a neighbour, with a third node out of reach.
C5_Witness ==
    /\ gcResult.kind = "AssertionError"
    /\ Cardinality(BaseComponent(gcG)) = 2
    /\ number_of_nodes(gcG) = 3

(***************************************************************************)
(* C6.  As claimed: every graph that violates the Graph invariant (it      *)
(* contains a cycle, is disconnected, or lacks base node 0) evaluates to   *)
(* the infinite-cost sentinel rather than throwing.                        *)
(***************************************************************************)
C6_Original ==
    (GcDone /\ ~IsTree(gcG)) => gcResult.kind = "inf"

(***************************************************************************)
(* C6, amended.  Of the graphs that violate the Graph invariant, exactly   *)
(* those with base node 0 and a cycle reachable from it evaluate to the    *)
(* infinite-cost sentinel; a graph with base node 0, an acyclic reachable  *)
(* part and an unreachable node fails the connectivity assertion, and a    *)
(* graph without node 0 fails the neighbour lookup of node 0.  None        *)
(* evaluates to a finite cost vector.                                      *)
(***************************************************************************)
C6_InvalidGraphOutcome ==
    (GcDone /\ ~IsTree(gcG)) =>
        gcResult.kind =
            IF ~has_node(gcG, 0) THEN "NetworkXError"
            ELSE IF ~AcyclicOn(gcG, BaseComponent(gcG)) THEN "inf"
            ELSE "AssertionError"

\* A graph without node 0, evaluated.
C6_Witness ==
    /\ GcDone
    /\ ~has_node(gcG, 0)
    /\ number_of_nodes(gcG) >= 1
    /\ gcResult.kind = "NetworkXError"

(***************************************************************************)
(* C1.  For every input tree and every accepted weight, the working tree   *)
(* of the greedy builder (2D and 3D) is connected and acyclic each time    *)
(* the while loop is reached, its nodes are the placed critical nodes and  *)
(* the Steiner midpoints, and the tree returned contains every critical    *)
(* node of the input graph.                                                *)
(***************************************************************************)
BuilderCritical == Range(get_critical_nodes(bP.G))

C1_WorkingTreeIsTree ==
    /\ bSt.status \in {"running", "returned"} =>
          /\ IsTree(bSt.H)
          /\ NodeSet(bSt.H) \cap BuilderCritical = bSt.in_nodes
    /\ bSt.status = "returned" => BuilderCritical \subseteq NodeSet(bSt.H)

\* A returned 3D tree on three critical nodes in which a Steiner midpoint
\* branches: the second tip was attached to the chain of the first.
C1_Witness ==
    /\ bSt.status = "returned"
    /\ bP.dim = 3
    /\ bP.alpha + bP.beta <= 100
    /\ Cardinality(BuilderCritical) = 3
    /\ \E m \in NodeSet(bSt.H) \ BuilderCritical : Len(bSt.H.adj[m]) = 3

(***************************************************************************)
(* C2.  pareto_front(G) returns a front with exactly 101 keys, alpha =     *)
(* 0.00, 0.01, ..., 1.00.  The entry at alpha = 0 is the cost of           *)
(* satellite_tree(G) and every other entry is the cost of                  *)
(* pareto_steiner_fast(G, alpha): wiring the total edge weight of that     *)
(* tree, delay the sum of its path lengths from the base to the original   *)
(* critical nodes of G.  The actual cost returned is that of G itself,     *)
(* with the same restriction of the delay.                                 *)
(***************************************************************************)
FrontCritical == Filter(Range(get_critical_nodes(pfG)))

TreeCosts(H, crit) ==
    [kind |-> "costs", wiring |-> TotalWeight(H), delay |-> ExpectedDelay(H, crit)]

C2_FrontEntries ==
    pf.status = "returned" =>
        /\ Len(pf.front) = 101
        /\ Keys(pf.front) = 0..100
        /\ DictGet(pf.front, 0) = TreeCosts(satellite_tree(pfG), FrontCritical)
        /\ \A a \in 1..100 :
              /\ pareto_steiner_fast(pfG, a).status = "returned"
              /\ DictGet(pf.front, a) =
                    TreeCosts(pareto_steiner_fast(pfG, a).H, FrontCritical)
        /\ pf.actual = TreeCosts(pfG, FrontCritical)
        /\ pf.actual = graph_costs(pfG, FrontCritical)

\* A returned front of a plant with two tips whose satellite entry costs more
\* wiring than its alpha = 1 entry, and whose plant has a node that is not
\* critical.
C2_Witness ==
    /\ pf.status = "returned"
    /\ Len(pf.critical_nodes) = 3
    /\ DictGet(pf.front, 0).wiring > DictGet(pf.front, 100).wiring
    /\ DictGet(pf.front, 0).delay < DictGet(pf.front, 100).delay

(***************************************************************************)
(* Claims about distance_from_front and distance_from_front_3d.  Ratios    *)
(* are compared by cross-multiplication: the costs of a valid entry are    *)
(* positive and the denominator of a number is positive.                   *)
(***************************************************************************)
DfDone == dfResult.status = "returned"

EntryCost(i) == dfFront[i].cost

\* The front entries that have no zero component.
ValidEntries == {i \in DOMAIN dfFront : \A j \in 1 .. dfDim : EntryCost(i)[j] # 0}

\* Every ratio actual_j / front_j of entry i is at most e.
Covers(e, i) == \A j \in 1 .. dfDim : dfActual[j] * e[2] <= e[1] * EntryCost(i)[j]

\* Some ratio of entry i is at least e.
Reaches(e, i) == \E j \in 1 .. dfDim : dfActual[j] * e[2] >= e[1] * EntryCost(i)[j]

\* e is the largest ratio of entry i.
IsMaxRatio(e, i) == Covers(e, i) /\ Reaches(e, i)

\* The number x is the ratio actual_j / front_j of entry i.
IsRatio(x, i, j) == x[2] > 0 /\ x[1] * EntryCost(i)[j] = dfActual[j] * x[2]

\* C7: whenever the front has an entry without a zero component, the call
\* returns and the reported epsilon is the minimum, over those entries, of the
\* largest ratio actual_j / front_j (entries with a zero component play no
\* part); in 3D the reported epsilon_components are the three ratios of an
\* entry attaining that minimum, so epsilon is their maximum.
C7_EpsilonIsMinMax ==
    (dfResult.status # "pending" /\ ValidEntries # {}) =>
        /\ DfDone
        /\ dfResult.epsilon[2] > 0
        /\ \E i \in ValidEntries :
              /\ IsMaxRatio(dfResult.epsilon, i)
              /\ dfDim = 3 =>
                    \A j \in 1 .. 3 : IsRatio(dfResult.epsilon_components[j], i, j)
        /\ \A k \in ValidEntries : Reaches(dfResult.epsilon, k)

\* A 3D call on a front with an entry that has a zero component and two valid
\* entries, where the minimum is attained by the later one only.
C7_Witness ==
    /\ dfDim = 3
    /\ DfDone
    /\ ValidEntries # DOMAIN dfFront
    /\ \E i, k \in ValidEntries :
          /\ i < k
          /\ IsMaxRatio(dfResult.epsilon, k)
          /\ ~Covers(dfResult.epsilon, i)

\* The scale factors k = n / d the scaled-entry claims are checked for.
Scales == {s \in (0 .. MaxCost) \X (1 .. MaxCost) : Gcd(s[1], s[2]) = 1}

\* actual_tree = k * p for the entry p at position i
IsScaled(i, k) == \A j \in 1 .. dfDim : dfActual[j] * k[2] = k[1] * EntryCost(i)[j]

\* Some valid entry of the front is larger than entry i in every component.
HasLarger(i) ==
    \E q \in ValidEntries : \A j \in 1 .. dfDim : EntryCost(q)[j] > EntryCost(i)[j]

\* C8 as stated: for every entry p of the front, the cost vector k * p yields
\* epsilon = 1 for k = 1, epsilon = k for k > 1 and epsilon < 1 for k < 1.
C8_Original ==
    dfResult.status # "pending" =>
        \A i \in DOMAIN dfFront : \A k \in Scales :
            IsScaled(i, k) =>
                /\ DfDone
                /\ k[1] >= k[2] => dfResult.epsilon = k
                /\ k[1] < k[2] => RatLt(dfResult.epsilon, One)

\* C8, corrected: for every entry p without a zero component, the cost vector
\* k * p (k >= 0) yields an epsilon of at most k; it is k exactly when k = 0 or
\* no valid entry of the front is larger than p in every component, and less
\* than k otherwise.  Hence epsilon < 1 for k < 1, and epsilon = 1 (= k) for
\* k = 1 (k > 1) on fronts where no entry is larger than p throughout.
C8_ScaledEntry ==
    dfResult.status # "pending" =>
        \A i \in ValidEntries : \A k \in Scales :
            IsScaled(i, k) =>
                /\ DfDone
                /\ RatLeq(dfResult.epsilon, k)
                /\ (k[1] = 0 \/ ~HasLarger(i)) => dfResult.epsilon = k
                /\ (k[1] > 0 /\ HasLarger(i)) => RatLt(dfResult.epsilon, k)
                /\ k[1] < k[2] => RatLt(dfResult.epsilon, One)

\* A call with the double of a valid entry that no entry exceeds throughout,
\* on a front with a second valid entry: epsilon is 2.
C8_Witness ==
    /\ DfDone
    /\ Cardinality(ValidEntries) >= 2
    /\ \E i \in ValidEntries :
          /\ IsScaled(i, <<2, 1>>)
          /\ ~HasLarger(i)
          /\ dfResult.epsilon = <<2, 1>>

C10_SentinelResult ==
    (dfDim = 3 /\ dfResult.status # "pending" /\ ValidEntries = {}) =>
        /\ DfDone
        /\ dfResult.epsilon = Inf
        /\ dfResult.alpha = Zero
        /\ dfResult.beta = Zero
        /\ dfResult.gamma = One

\* A 3D call on a front of two entries, each with a zero component.
C10_Witness ==
    /\ dfDim = 3
    /\ DfDone
    /\ Len(dfFront) >= 2
    /\ ValidEntries = {}
    /\ dfResult.epsilon = Inf


(***************************************************************************)
(* Claims about calculate_tradeoff.                                        *)
(***************************************************************************)
TrDone == dfResult.status = "returned"

\* The least length and the least distance among the points of the front.
MinLength == SetMin({dfFront[i].cost[1] : i \in DOMAIN dfFront})

MinDistance == SetMin({dfFront[i].cost[2] : i \in DOMAIN dfFront})

\* The reported pair (length, distance) is a point of the front.
IsFrontPoint(length, distance) ==
    \E i \in DOMAIN dfFront : <<dfFront[i].cost[1], 1>> = length /\ <<dfFront[i].cost[2], 1>> = distance

\* C11: on a non-empty front the Steiner corner is a front point of minimal
\* length and the Satellite corner a front point of minimal distance; when
\* actual.distance, satellite.distance and Optimal_ratio are non-zero,
\* Actual_ratio = actual.length / actual.distance, Optimal_ratio =
\* steiner.length / satellite.distance and Tradeoff is their quotient.
C11_TradeoffValues ==
    (TrDone /\ dfFront # <<>>) =>
        /\ IsFrontPoint(dfResult.Steiner_length, dfResult.Steiner_distance)
        /\ dfResult.Steiner_length = <<MinLength, 1>>
        /\ IsFrontPoint(dfResult.Satellite_length, dfResult.Satellite_distance)
        /\ dfResult.Satellite_distance = <<MinDistance, 1>>
        /\ (dfActual[2] # 0 /\ MinDistance # 0 /\ MinLength # 0) =>
              /\ dfResult.Actual_ratio # None
              /\ dfResult.Actual_ratio[1] * dfActual[2] = dfActual[1] * dfResult.Actual_ratio[2]
              /\ dfResult.Optimal_ratio # None
              /\ dfResult.Optimal_ratio[1] * MinDistance = MinLength * dfResult.Optimal_ratio[2]
              /\ dfResult.Tradeoff # None
              /\ dfResult.Tradeoff[2] > 0
              /\ dfResult.Tradeoff[1] * dfActual[2] * MinLength
                    = dfResult.Tradeoff[2] * dfActual[1] * MinDistance

\* A front whose two corners are different points, with a tradeoff above 1.
C11_Witness ==
    /\ TrDone
    /\ Len(dfFront) >= 2
    /\ dfResult.Tradeoff # None
    /\ dfResult.Steiner_distance # dfResult.Satellite_distance
    /\ dfResult.Steiner_length # dfResult.Satellite_length
    /\ RatLt(One, dfResult.Tradeoff)

\* C12: calculate_tradeoff always returns.  An empty front gives None in all
\* seven fields.  On a non-empty front the four corner values are reported,
\* Actual_ratio is None exactly when actual.distance = 0, Optimal_ratio is None
\* exactly when satellite.distance = 0, and Tradeoff is a number exactly when
\* actual.distance, satellite.distance and steiner.length are all non-zero.
C12_GuardedDivisions ==
    dfResult.status # "pending" =>
        /\ TrDone
        /\ dfFront = <<>> => dfResult = EmptyTradeoff
        /\ dfFront # <<>> =>
              /\ dfResult.Steiner_length # None /\ dfResult.Steiner_distance # None
              /\ dfResult.Satellite_length # None /\ dfResult.Satellite_distance # None
              /\ dfResult.Actual_ratio = None <=> dfActual[2] = 0
              /\ dfResult.Optimal_ratio = None <=> MinDistance = 0
              /\ (dfResult.Optimal_ratio # None /\ MinLength = 0) => dfResult.Optimal_ratio = Zero
              /\ dfResult.Tradeoff # None <=>
                    (dfActual[2] # 0 /\ MinDistance # 0 /\ MinLength # 0)
              /\ dfResult.Tradeoff # None => dfResult.Tradeoff[2] > 0

\* A front with a zero Steiner length: Optimal_ratio is 0, the tradeoff is
\* withheld and the corners are reported.
C12_Witness ==
    /\ TrDone
    /\ dfFront # <<>>
    /\ dfActual[2] # 0
    /\ dfResult.Actual_ratio # None
    /\ dfResult.Optimal_ratio = Zero
    /\ dfResult.Tradeoff = None
    /\ dfResult.Satellite_distance # None


(***************************************************************************)
(* C13.  The tree built for a graph and a weight does not depend on the    *)
(* order in which the set unpaired_nodes is iterated.                      *)
(***************************************************************************)
Rotate(s, k) == SubSeq(s, k + 1, Len(s)) \o SubSeq(s, 1, k)

\* Iteration orders of a set: ascending, descending and two rotations.
SetOrders(S) ==
    {AscSeq(S), Reverse(AscSeq(S)), Rotate(AscSeq(S), 1),
     Rotate(Reverse(AscSeq(S)), Cardinality(S) \div 2)}

\* Two outcomes of a pass agree: the same exception, or the same locals.
SameOutcome(a, b) == a.status = b.status /\ (a.status = "running" => a = b)

\* C13: every pass of the while loop yields the same locals whatever the
\* order in which unpaired_nodes is iterated, and the tree returned after
\* passes in any of these orders is the one built in ascending order, so that
\* two calls on the same graph and weight give the same tree and the same
\* front entry.
C13_OrderIndependent ==
    /\ (bSt.status = "running" /\ LoopGuard(bP, bSt)) =>
          \A order \in SetOrders(bSt.unpaired_nodes) :
              SameOutcome(Iterate(bP, bSt, order),
                          Iterate(bP, bSt, AscSeq(bSt.unpaired_nodes)))
    /\ bSt.status = "returned" => bSt = RunBuilder(bP, BuilderStart(bP))

\* A pass with at least three stale nodes, two of which offer candidate
\* edges of the same cost.
C13_Witness ==
    /\ bSt.status = "running"
    /\ LoopGuard(bP, bSt)
    /\ bP.dim = 2
    /\ Cardinality(bSt.unpaired_nodes) >= 3
    /\ \E i, j \in DOMAIN PairNodes(bP, bSt, AscSeq(bSt.unpaired_nodes)).best_edges :
          /\ i # j
          /\ PairNodes(bP, bSt, AscSeq(bSt.unpaired_nodes)).best_edges[i][1]
                = PairNodes(bP, bSt, AscSeq(bSt.unpaired_nodes)).best_edges[j][1]

(***************************************************************************)
(* C14.  random_tree returns 1000 samples, and for every input tree and    *)
(* every outcome of the draws each sample is the cost pair of a connected  *)
(* acyclic tree whose nodes are exactly the critical nodes of G: wiring    *)
(* the total edge weight, delay the sum of the path lengths to the base,   *)
(* both finite and non-negative.  No connectivity assertion fails.         *)
(***************************************************************************)
RandomCritical == Range(get_critical_nodes(rtG))

C14_RandomSamples ==
    /\ rt.status \in {"running", "returned"}
    /\ rt.failure = "none"
    /\ rt.i >= 1 =>
          /\ IsTree(rt.R)
          /\ NodeSet(rt.R) = RandomCritical
          /\ rt.sample = TreeCosts(rt.R, NoFilter)
          /\ rt.sample.wiring >= 0
          /\ rt.sample.delay >= 0
    /\ rt.status = "returned" => rt.costs = RandomTreeCount

\* All samples returned, the last one from a tree on three critical nodes that
\* has an edge the input graph does not have.
C14_Witness ==
    /\ rt.status = "returned"
    /\ rt.costs = RandomTreeCount
    /\ Cardinality(RandomCritical) = 3
    /\ EdgeSet(rt.R) # EdgeSet(rtG)
    /\ rt.sample.delay > rt.sample.wiring

(***************************************************************************)
(* C15.  In pareto_steiner_fast every pass of the while loop moves exactly *)
(* one critical node from out_nodes to in_nodes and into the tree, and     *)
(* counts it in added_nodes; so for every input tree and weight in [0, 1]  *)
(* the call returns after |critical nodes| - 1 passes and no assertion     *)
(* fails.                                                                  *)
(***************************************************************************)
PassesDone == bSt.added_nodes - 1

C15_Counts ==
    /\ bSt.status \in {"running", "returned"} =>
          /\ PassesDone = Cardinality(bSt.in_nodes) - 1
          /\ bSt.in_nodes \cup bSt.out_nodes = BuilderCritical
          /\ bSt.in_nodes \cap bSt.out_nodes = {}
    /\ bSt.status = "returned" => PassesDone = Cardinality(BuilderCritical) - 1
    /\ WeightsAccepted(bP) => bSt.status \in {"running", "returned"}

C15_PassAddsOne ==
    (bSt.status = "running" /\ bSt'.status = "running") =>
        /\ bSt'.added_nodes = bSt.added_nodes + 1
        /\ \E v \in bSt.out_nodes :
              /\ bSt'.in_nodes = bSt.in_nodes \cup {v}
              /\ bSt'.out_nodes = bSt.out_nodes \ {v}
              /\ NodeSet(bSt'.H) \cap BuilderCritical = bSt.in_nodes \cup {v}

OffSimplex ==
    /\ bP.dim = 3
    /\ bP.alpha \in 0..100
    /\ bP.beta \in 0..100
    /\ bP.alpha + bP.beta > 100

C16_Original ==
    OffSimplex =>
        /\ ~CostWeightsAccepted(bP.alpha, bP.beta)
        /\ bSt.status = "AssertionError"

(***************************************************************************)
(* C16, what the code does.  Both functions assert 0 <= alpha <= 1 and     *)
(* 0 <= beta <= 1 and nothing else: the 3D builder fails an assertion      *)
(* exactly when one of the two weights is outside [0, 1], and weights with *)
(* alpha + beta > 1 are accepted and used with a negative gamma.           *)
(***************************************************************************)
C16_SimplexNotChecked ==
    bP.dim = 3 =>
        /\ bSt.status = "AssertionError" <=> ~(bP.alpha \in 0..100 /\ bP.beta \in 0..100)
        /\ CostWeightsAccepted(bP.alpha, bP.beta) <=> (bP.alpha \in 0..100 /\ bP.beta \in 0..100)

\* A 3D call with alpha = 1 and beta = 0.5 that returned a tree.
C16_Witness ==
    /\ OffSimplex
    /\ bSt.status = "returned"
    /\ Cardinality(BuilderCritical) >= 2

(***************************************************************************)
(* C17.  As claimed: when a critical node has the position of the base     *)
(* node, the 3D builder takes the tortuosity ratio to be 1.0 and goes on;  *)
(* it never raises a division-by-zero error.                               *)
(***************************************************************************)
AtBase(n) == bP.G.pos[n] = bP.G.pos[0]

CoincidentCritical == \E n \in BuilderCritical \ {0} : AtBase(n)

Call3D == bP.dim = 3 /\ WeightsAccepted(bP)

C17_Original ==
    (Call3D /\ CoincidentCritical) =>
        /\ bSt.status \in {"running", "returned"}
        /\ \A n \in (DOMAIN bSt.straight_distance_to_base) \ {0} :
              node_dist(bSt.H, n, 0) = 0 => bSt.straight_distance_to_base[n] = Unit

(***************************************************************************)
(* C17, what the code does.  The 3D builder divides by the distance to the *)
(* base without a test: a call whose graph has a critical node at the      *)
(* position of the base raises ZeroDivisionError and returns no tree, and  *)
(* every other call with weights in [0, 1] raises nothing.                 *)
(***************************************************************************)
C17_CoincidentRaises ==
    Call3D =>
        /\ bSt.status \in {"running", "returned", "ZeroDivisionError"}
        /\ bSt.status = "ZeroDivisionError" => CoincidentCritical
        /\ bSt.status = "returned" => ~CoincidentCritical

\* A 3D call on three critical nodes, one of them at the position of the base,
\* that raised in its first pass.
C17_Witness ==
    /\ Call3D
    /\ bSt.status = "ZeroDivisionError"
    /\ Cardinality(BuilderCritical) = 3
    /\ \E n \in BuilderCritical : ~AtBase(n)
    /\ bSt.added_nodes = 1

(***************************************************************************)
(* C18.  satellite_tree(G) is a star: its nodes are exactly the critical   *)
(* nodes of G, its edges exactly the pairs (0, c) for the critical nodes   *)
(* c other than the base, each weighing the Euclidean distance from the    *)
(* base to c and each node keeping its position; hence its wiring cost     *)
(* equals its delay over the critical nodes.                               *)
(***************************************************************************)
HelperCritical == Range(get_critical_nodes(hG))

SatelliteCosts(H) == graph_costs(H, Filter(HelperCritical))

C18_SatelliteIsStar ==
    (hFn = "satellite_tree" /\ hResult.status = "returned") =>
        /\ NodeSet(hResult.value) = HelperCritical
        /\ EdgeSet(hResult.value) = {<<0, c>> : c \in HelperCritical \ {0}}
        /\ \A c \in HelperCritical \ {0} :
              EdgeWeight(hResult.value, 0, c) = point_dist(hG.pos[0], hG.pos[c])
        /\ \A c \in HelperCritical : hResult.value.pos[c] = hG.pos[c]
        /\ SatelliteCosts(hResult.value).kind = "costs"
        /\ SatelliteCosts(hResult.value).wiring = SatelliteCosts(hResult.value).delay

\* A star on three tips, built for a tree with an inner node that is left out,
\* and with an edge the input tree does not have.
C18_Witness ==
    /\ hFn = "satellite_tree"
    /\ hResult.status = "returned"
    /\ Cardinality(HelperCritical) = 3
    /\ Cardinality(NodeSet(hG)) = 4
    /\ EdgeSet(hResult.value) \ EdgeSet(hG) # {}
    /\ SatelliteCosts(hResult.value).wiring > 0

(***************************************************************************)
(* C19.  As claimed: in the front returned by pareto_front, for every      *)
(* alpha of the grid the delay of front[alpha] is at least that of         *)
(* front[0] and its wiring at most that of front[0].                       *)
(***************************************************************************)
Satellite == DictGet(pf.front, 0)

Chains == Cardinality(FrontCritical.nodes) - 1

\* in half steps
DelaySlack == Chains * ((STEINER_MIDPOINTS + 1) * Chains + 1)

\* in steps
WiringSlack == Chains * 2 * (STEINER_MIDPOINTS + 1)

IncidentEdges(G, n) == {e \in EdgeSet(G) : e[1] = n \/ e[2] = n}

IsTip(G, n) == Cardinality(IncidentEdges(G, n)) = 1 /\ <<n, n>> \notin EdgeSet(G)

PositionIn(seq, x) == CHOOSE i \in DOMAIN seq : seq[i] = x

C20_CriticalNodes ==
    /\ hFn = "get_critical_nodes" => hResult.status \in {"pending", "returned"}
    /\ (hFn = "get_critical_nodes" /\ hResult.status = "returned") =>
          /\ Range(hResult.value) = {n \in NodeSet(hG) : n = 0 \/ IsTip(hG, n)}
          /\ \A i, j \in DOMAIN hResult.value :
                i < j => PositionIn(hG.nodes, hResult.value[i])
                            < PositionIn(hG.nodes, hResult.value[j])
          /\ NodeSet(hG) = {0} => hResult.value = <<0>>

\* A graph iterated in descending order, with a tip before the base and a node
\* that is neither.
C20_Witness ==
    /\ hFn = "get_critical_nodes"
    /\ hResult.status = "returned"
    /\ Len(hResult.value) = 2
    /\ hResult.value[2] = 0
    /\ Cardinality(NodeSet(hG)) = 3

(***************************************************************************)
(* Claims about ties and interpolation in distance_from_front (2D).        *)
(***************************************************************************)
\* The epsilon of front entry i: its largest ratio actual_j / front_j.
EpsOf(i) == RatMaxSeq(Ratios(dfActual, EntryCost(i)))

\* No valid entry other than i and j is closer than i or j.
TwoSmallest(i, j) ==
    /\ i # j
    /\ \A k \in ValidEntries \ {i, j} : RatLeq(EpsOf(i), EpsOf(k)) /\ RatLeq(EpsOf(j), EpsOf(k))

\* The pairs of valid entries with the two smallest epsilons, these being
\* numerically equal.
TiedPairs ==
    {p \in ValidEntries \X ValidEntries :
        TwoSmallest(p[1], p[2]) /\ isclose(EpsOf(p[1]), EpsOf(p[2]))}

\* The valid entry of least epsilon that was inserted first.
IsFirstClosest(i) ==
    /\ \A k \in ValidEntries : RatLeq(EpsOf(i), EpsOf(k))
    /\ \A k \in ValidEntries : k < i => RatLt(EpsOf(i), EpsOf(k))

KeysAscending == \A i, j \in DOMAIN dfFront : i < j => dfFront[i].key < dfFront[j].key

ScalingDone == hFn = "apply_scaling_transformation" /\ hResult.status = "returned"

\* The fields C22 names as dimensionless.
Dimensionless3D == Weights3D \cup Epsilons3D \cup {Path_tortuosity}

\* Entry i of the result has the key of entry i of the argument, and its
\* value is the argument's value multiplied by the scale factor.
Multiplied(i) ==
    /\ hResult.value[i].key = hG.results[i].key
    /\ hResult.value[i].value.type = "number"
    /\ hResult.value[i].value.v[1] = RatMul(hG.results[i].value.v[1], hG.scale_factor)

Unchanged(i) == hResult.value[i] = hG.results[i]

IsNumber(i) == hG.results[i].value.type = "number"

\* C22 as stated: every dimensionless 3D field is left unchanged, and the
\* numeric length fields are multiplied by the scale factor.
C22_Original ==
    ScalingDone =>
        /\ DOMAIN hResult.value = DOMAIN hG.results
        /\ \A i \in DOMAIN hG.results :
              /\ hG.results[i].key \in Dimensionless3D => Unchanged(i)
              /\ (hG.results[i].key \in LengthFields /\ IsNumber(i)) => Multiplied(i)

\* C22: with the default patterns the call leaves alpha_3d, Path tortuosity
\* and their "(random)" variants unchanged and multiplies the numeric length
\* fields, but it also multiplies beta_3d, gamma_3d, epsilon_3d and the three
\* epsilon components, with or without "(random)", when they hold a number.
C22_WeightsAndEpsilonsScaled ==
    ScalingDone =>
        /\ DOMAIN hResult.value = DOMAIN hG.results
        /\ \A i \in DOMAIN hG.results :
              /\ hG.results[i].key \in WithRandom({alpha_3d, Path_tortuosity}) => Unchanged(i)
              /\ (hG.results[i].key \in LengthFields /\ IsNumber(i)) => Multiplied(i)
              /\ (hG.results[i].key \in WithRandom({beta_3d, gamma_3d}) \cup Epsilons3D /\ IsNumber(i)) =>
                    Multiplied(i)

\* A call with a number under beta_3d and a number under Total root length:
\* both come back multiplied by the scale factor.
C22_Witness ==
    /\ ScalingDone
    /\ \E i, j \in DOMAIN hG.results :
          /\ hG.results[i].key = beta_3d
          /\ hG.results[j].key = Total_root_length
          /\ IsNumber(i) /\ IsNumber(j)
          /\ Multiplied(i) /\ Multiplied(j)
          /\ ~Unchanged(i)

(***************************************************************************)
(* Claims about the choice of the committed edge.  A pass leaves H and     *)
(* distance_to_base of the nodes already in the tree as they were, so the  *)
(* cost of a pair is read from the state before the pass.                  *)
(***************************************************************************)
PassTaken == bSt.status = "running" /\ bSt'.status = "running"

\* The pass joined v to the tree by a chain of new nodes that starts at u.
CommittedEdge(u, v) ==
    /\ v \in bSt'.in_nodes \ bSt.in_nodes
    /\ \E n \in NodeSet(bSt'.H) \ NodeSet(bSt.H) : Adjacent(bSt'.H, u, n)

\* d(u, v), from the position of tree node u to that of critical node v
PairLength(u, v) == point_dist(bSt.H.pos[u], bP.G.pos[v])

\* alpha * d(u, v) + (1 - alpha) * (d(u, v) + distance_to_base[u]), in hundredths
WeightedCost2D(u, v) ==
    bP.alpha * PairLength(u, v) + (100 - bP.alpha) * (PairLength(u, v) + bSt.distance_to_base[u])

PassOrders == {AscSeq(bSt.unpaired_nodes), Reverse(AscSeq(bSt.unpaired_nodes))}

EntriesOf(st, u) == {i \in DOMAIN st.best_edges : st.best_edges[i][2] = u}

\* v is an unplaced critical node and none is nearer to tree node u.
NearestUnplaced(st, u, v) ==
    /\ v \in st.out_nodes
    /\ v \in BuilderCritical \ NodeSet(st.H)
    /\ \A w \in st.out_nodes :
          point_dist(st.H.pos[u], bP.G.pos[v]) <= point_dist(st.H.pos[u], bP.G.pos[w])

PendingAtPop(st) ==
    /\ st.best_edges # <<>>
    /\ \A u \in NodeSet(st.H) : Cardinality(EntriesOf(st, u)) = 1
    /\ \A i \in DOMAIN st.best_edges :
          /\ st.best_edges[i][2] \in NodeSet(st.H)
          /\ NearestUnplaced(st, st.best_edges[i][2], st.best_edges[i][3])
    /\ ~has_node(st.H, Head(st.best_edges)[3])

PendingWhenRunning(st) == st.status = "running" => PendingAtPop(st)

\* C24: when a candidate is popped, every node of the tree has exactly one
\* pending entry (cost, u, v), and in every pending entry u is in the tree and
\* v is a critical node outside the tree that is a nearest unplaced critical
\* node of u; the popped target is not in the tree.
C24_PendingCandidates ==
    (bSt.status = "running" /\ LoopGuard(bP, bSt)) =>
        \A order \in PassOrders : PendingWhenRunning(PairNodes(bP, bSt, order))

KeepsEarlierEntries(st) ==
    /\ st.status = "running"
    /\ Len(st.best_edges) = Cardinality(NodeSet(bSt.H))
    /\ Len(st.best_edges) > Len(bSt.best_edges)

\* The third pass of a call is about to pop: entries of the earlier passes are
\* still pending beside those of the nodes paired anew.
C24_Witness ==
    /\ bSt.status = "running"
    /\ bSt.added_nodes = 3
    /\ LoopGuard(bP, bSt)
    /\ bSt.best_edges # <<>>
    /\ KeepsEarlierEntries(PairNodes(bP, bSt, AscSeq(bSt.unpaired_nodes)))

(***************************************************************************)
(* Claims about the cached attributes of the working tree.                 *)
(***************************************************************************)
BuilderAlive == bSt.status \in {"running", "returned"}

\* C25 as stated: the cached distance_to_base of every node of the working
\* tree is the sum of the edge weights on its path to the base.
C25_Original ==
    BuilderAlive =>
        /\ DOMAIN bSt.distance_to_base = NodeSet(bSt.H)
        /\ bSt.distance_to_base = PathLengths(bSt.H)

\* The rounding of one chain, in half steps: the direct distance from the new
\* node to u is rounded once, each of the segments on the path once.
ChainSlack == STEINER_MIDPOINTS + 2

CloseToPath(cached, path_lengths) ==
    \A n \in DOMAIN path_lengths :
        2 * Abs(cached[n] - path_lengths[n]) <= PassesDone * ChainSlack

\* C25: every node of the working tree has a cached distance_to_base, and it
\* is the sum of the edge weights on its path to the base up to the rounding
\* of the distances: the cache adds the direct distance from the node to u to
\* the cache of u, the path adds the separately rounded segment weights.
C25_CachedDistance ==
    BuilderAlive =>
        /\ DOMAIN bSt.distance_to_base = NodeSet(bSt.H)
        /\ bSt.distance_to_base[0] = 0
        /\ CloseToPath(bSt.distance_to_base, PathLengths(bSt.H))

\* A returned tree in which a chain starts at a node other than the base, and
\* the cache of some node differs from the sum of its path by the rounding.
C25_Witness ==
    /\ bSt.status = "returned"
    /\ Cardinality(bSt.in_nodes) = 4
    /\ \E u \in NodeSet(bSt.H) \ {0} : degree(bSt.H, u) = 3
    /\ bSt.distance_to_base # PathLengths(bSt.H)

(***************************************************************************)
(* Claims about the greedy builder at alpha = 0.                           *)
(***************************************************************************)
Returned2DAtZero == bP.dim = 2 /\ bP.alpha = 0 /\ bSt.status = "returned"

BuilderChains == Cardinality(BuilderCritical) - 1

\* graph_costs(H, critical_nodes=critical_nodes) for the critical nodes of G
CriticalCosts(H) == graph_costs(H, Filter(BuilderCritical))

NearSatellite(greedy, satellite) ==
    /\ greedy.kind = "costs"
    /\ satellite.kind = "costs"
    /\ 2 * Abs(greedy.delay - satellite.delay) <= BuilderChains * BuilderChains * ChainSlack
    /\ 2 * greedy.wiring <= 2 * satellite.wiring + BuilderChains * ChainSlack

ShorterThan(greedy, satellite) == greedy.wiring + Unit \div 2 < satellite.wiring

WeightedCost3D(st, u, v) ==
    LET length == point_dist(st.H.pos[u], bP.G.pos[v])
        distance == length + st.distance_to_base[u]
        coverage == RoundDiv(distance * Unit, point_dist(bP.G.pos[0], bP.G.pos[v]))
    IN bP.alpha * length + bP.beta * distance - (100 - bP.alpha - bP.beta) * coverage

CheaperPairExists(st) ==
    /\ st.status = "running"
    /\ st.best_edges # <<>>
    /\ \E u2 \in NodeSet(st.H), v2 \in st.out_nodes :
          WeightedCost3D(st, u2, v2) < Head(st.best_edges)[1]

Alive3D == bP.dim = 3 /\ BuilderAlive

\* The direct distance between node n of the working tree and the base.
StraightLine(n) == point_dist(bSt.H.pos[n], bSt.H.pos[0])

\* C28 as stated: straight_distance_to_base[n] is the direct Euclidean
\* distance between n and the base, 0 for the base.
C28_Original ==
    Alive3D =>
        /\ DOMAIN bSt.straight_distance_to_base = NodeSet(bSt.H)
        /\ \A n \in NodeSet(bSt.H) : bSt.straight_distance_to_base[n] = StraightLine(n)

\* distance_to_base[n] over the direct distance, as a multiple of 1 / Unit
IsTortuosityOf(ratio, n) ==
    /\ StraightLine(n) > 0
    /\ ratio = RoundDiv(bSt.distance_to_base[n] * Unit, StraightLine(n))

\* C28: straight_distance_to_base is 0 for the base and, for every other
\* node n of the 3D working tree, the ratio of distance_to_base[n] to the
\* direct distance between n and the base: a tortuosity, not a distance.
C28_HoldsRatio ==
    Alive3D =>
        /\ DOMAIN bSt.straight_distance_to_base = NodeSet(bSt.H)
        /\ bSt.straight_distance_to_base[0] = 0
        /\ \A n \in NodeSet(bSt.H) \ {0} :
              IsTortuosityOf(bSt.straight_distance_to_base[n], n)

\* A returned 3D tree on three critical nodes with a critical node whose
\* attribute is not its direct distance to the base.
C28_Witness ==
    /\ bP.dim = 3
    /\ bSt.status = "returned"
    /\ Cardinality(bSt.in_nodes) = 3
    /\ \E n \in bSt.in_nodes \ {0} :
          /\ bSt.straight_distance_to_base[n] # StraightLine(n)
          /\ IsTortuosityOf(bSt.straight_distance_to_base[n], n)

(***************************************************************************)
(* The interpolation of distance_from_front (2D).                          *)
(***************************************************************************)
\* x lies between a and b, ends included.
RatBetween(x, a, b) ==
    \/ RatLeq(a, x) /\ RatLeq(x, b)
    \/ RatLeq(b, x) /\ RatLeq(x, a)

\* x = w * a + (1 - w) * b for a weight w with 1/2 <= w <= 1: x lies between
\* a and the midpoint of a and b.
LeansTo(x, a, b) == RatBetween(x, a, RatMul(Rat(1, 2), RatAdd(a, b)))

\* Entry i is one of the two closest valid entries, j the other, i not the
\* farther of the two.
ClosestPair(i, j) == TwoSmallest(i, j) /\ RatLeq(EpsOf(i), EpsOf(j))

\* C29: with at least two valid front points the 2D call returns, and the
\* reported alpha is a convex combination of the keys of the two points of
\* smallest epsilon in which the closer point weighs at least as much as the
\* other; so it lies between the two keys, and in [0, 1] as the keys do.
C29_ConvexCombination ==
    (dfDim = 2 /\ dfResult.status # "pending" /\ Cardinality(ValidEntries) >= 2) =>
        /\ DfDone
        /\ \E i, j \in ValidEntries :
              /\ ClosestPair(i, j)
              /\ LeansTo(dfResult.alpha, Weight(dfFront[i].key), Weight(dfFront[j].key))
              /\ RatBetween(dfResult.alpha, Weight(dfFront[i].key), Weight(dfFront[j].key))
        /\ RatBetween(dfResult.alpha, Zero, One)

\* A call on a front with two valid entries at different distances: the
\* reported alpha lies strictly between the two keys.
C29_Witness ==
    /\ dfDim = 2
    /\ DfDone
    /\ \E i, j \in ValidEntries :
          /\ ClosestPair(i, j)
          /\ RatLt(Zero, EpsOf(i))
          /\ RatLt(EpsOf(i), EpsOf(j))
          /\ dfResult.alpha # Weight(dfFront[i].key)
          /\ dfResult.alpha # Weight(dfFront[j].key)
          /\ LeansTo(dfResult.alpha, Weight(dfFront[i].key), Weight(dfFront[j].key))

(***************************************************************************)
(* distance_from_front (2D) on fronts without a valid entry.               *)
(***************************************************************************)
Called2D == dfDim = 2 /\ dfResult.status # "pending"

\* C30 as stated: the 2D call never raises; on an empty front or a front all
\* of whose entries are skipped it returns a result.
C30_Original == Called2D => DfDone

\* C30: the 2D call returns exactly when the front has an entry without a
\* zero component; on an empty front and on a front all of whose entries are
\* skipped it raises IndexError.
C30_RaisesWithoutValidEntry ==
    Called2D =>
        /\ ValidEntries # {} <=> DfDone
        /\ ValidEntries = {} <=> dfResult.status = "IndexError"

\* A call on the all-zero front of a single-node graph has raised.
C30_Witness ==
    /\ dfDim = 2
    /\ dfFront # <<>>
    /\ \A i \in DOMAIN dfFront : EntryCost(i) = <<0, 0>>
    /\ dfResult.status = "IndexError"

====
